---- MODULE Spec2Model ----
(***************************************************************************)
(* A model of inferrouter: the in-memory quota store (reservation          *)
(* protocol under its RWMutex), the per-account circuit breaker, the       *)
(* candidate pipeline, the Router attempt loop and the RouterStream.       *)
(*                                                                         *)
(* Time is a natural number of ticks; a UTC day is DayLen ticks long and   *)
(* midnight falls on the multiples of DayLen.                              *)
(***************************************************************************)
EXTENDS Integers, Sequences, FiniteSets, TLC

\* ------------------------------------------------------------------ bounds
MaxNow == 2
MaxClients == 2
MaxOps == 3
MaxLimit == 2
MaxAmt == 2
MaxProcs == 2
MaxReqs == 2
MaxNext == 1
MaxClose == 2
MaxStreams == 1
MaxThreshold == 3
MaxWindow == 2
MaxPeriod == 2
MaxHealthNow == 4
MaxCeiling == 1
MaxSpend == 2
DayLen == 1
DaysInYear == 365

\* ------------------------------------------------------------- vocabulary
NoErr == "nil"
ErrDuplicate == "duplicate idempotency key"
ErrQuotaExceeded == "quota exceeded"
ErrRateLimited == "rate limited"
ErrAuthFailed == "authentication failed"
ErrInvalidRequest == "invalid request"
ErrProviderUnavailable == "provider unavailable"
ErrAllFailed == "all candidates failed"
ErrNoCandidates == "no candidates"

QuotaTokens == "tokens"
QuotaRequests == "requests"

\* The empty idempotency key "" ; every other key is a pair <<owner, n>>.
NoKey == <<0, 0>>

Max(a, b) == IF a >= b THEN a ELSE b
Min(a, b) == IF a <= b THEN a ELSE b

VARIABLES
  now,        \* the wall clock, in ticks
  accounts,   \* MemoryQuotaStore.accounts: account id -> accountQuota
  seen,       \* MemoryQuotaStore.seen: the idempotency keys recorded
  mu,         \* MemoryQuotaStore.mu: [writer, readers]
  cpc,        \* store client: position inside the current store call
  cop,        \* store client: the call in progress and its locals
  nops,       \* store clients: calls started so far
  held,       \* reservations returned by Reserve and not yet consumed
  keyOK,      \* for each <<account, key>>, the Reserve calls that succeeded with it
  rolled,     \* the <<account, key>> of the keyed reservations rolled back so far
  sel,        \* policy client: the slice it passes to Select, and what it got back
  co,         \* a second goroutine calling Close on the stream: position and locals
  tri,        \* one store of each kind, given the same calls, and what they returned
  cfg,        \* Router.cfg: AllowPaid and the accounts, in configuration order
  health,     \* HealthTracker.accounts: account id -> accountHealth
  hcfg,       \* HealthTracker.cfg
  hop,        \* tracker client: the last call it made on the tracker, and its outcome
  spend,      \* SpendTracker: accounts (account id -> dollars) and resetDay
  rpc,        \* router call: position inside ChatCompletion(Stream) / RouterStream
  rl,         \* router call: its locals
  att,        \* router call: what happened to each candidate tried, in order
  ret,        \* router call: what it returned
  str,        \* the RouterStream the call returned
  nreq        \* router calls started so far

storeVars == <<now, accounts, seen>>
clientVars == <<mu, cpc, cop, nops, held, keyOK, rolled, sel, co, tri>>
trackerVars == <<hcfg, hop, spend>>
routerVars == <<cfg, health, rpc, rl, att, ret, str, nreq, hcfg, hop, spend, sel, co,
                tri>>
vars == <<now, accounts, seen, mu, cpc, cop, nops, held, keyOK, rolled, sel, co, tri,
          cfg, health, rpc, rl, att, ret, str, nreq, hcfg, hop, spend>>

\* ---------------------------------------------------- MemoryQuotaStore
nextMidnightUTC(t) == ((t \div DayLen) + 1) * DayLen

NewRow(limit, unit, t) ==
  [DailyLimit |-> limit, Used |-> 0, Reserved |-> 0, Unit |-> unit,
   ResetAt |-> nextMidnightUTC(t)]

ResetDue(aq, t) == t > aq.ResetAt

maybeReset(aq, t) ==
  IF ResetDue(aq, t)
  THEN [aq EXCEPT !.Used = 0, !.Reserved = 0, !.ResetAt = nextMidnightUTC(t)]
  ELSE aq

Available(aq) == aq.DailyLimit - aq.Used - aq.Reserved

IsDuplicate(sn, key) == key # NoKey /\ key \in sn

RecordKey(sn, key) == IF key # NoKey THEN sn \cup {key} ELSE sn

AddReserved(aq, amount) == [aq EXCEPT !.Reserved = @ + amount]

\* A Commit that charges the reserved amount instead of the actual one.
CommitRowFromReserved(aq, amount, actual) ==
  [aq EXCEPT !.Reserved = @ - amount, !.Used = @ + amount]
CommitRow(aq, amount, actual) ==
  [aq EXCEPT !.Reserved = @ - amount, !.Used = @ + actual]

\* A Rollback that releases nothing.
RollbackRowKeeps(aq, amount) == aq
RollbackRow(aq, amount) == [aq EXCEPT !.Reserved = @ - amount]

StoreRemaining(accts, a) ==
  IF a \notin DOMAIN accts THEN 0
  ELSE IF Available(accts[a]) < 0 THEN 0 ELSE Available(accts[a])

StoreSetQuota(accts, a, limit, unit, t) ==
  [x \in (DOMAIN accts) \cup {a} |->
     IF x = a THEN NewRow(limit, unit, t) ELSE accts[x]]

StoreCommit(accts, a, amount, actual) ==
  IF a \notin DOMAIN accts THEN accts
  ELSE [accts EXCEPT ![a] = CommitRow(@, amount, actual)]

StoreRollback(accts, a, amount) ==
  IF a \notin DOMAIN accts THEN accts
  ELSE [accts EXCEPT ![a] = RollbackRow(@, amount)]

\* A Reserve that adds the amount to reserved before it checks availability.
ReserveDecideReservesFirst(accts, sn, a, amount, key, t) ==
  IF IsDuplicate(sn, key)
  THEN [err |-> ErrDuplicate, update |-> FALSE, accounts |-> accts]
  ELSE IF a \notin DOMAIN accts
  THEN [err |-> NoErr, update |-> FALSE, accounts |-> accts]
  ELSE LET aq == maybeReset(accts[a], t)
           ac == [accts EXCEPT ![a] = aq]
       IN IF amount > Available(aq)
          THEN [err |-> ErrQuotaExceeded, update |-> FALSE,
                accounts |-> [accts EXCEPT ![a] = AddReserved(aq, amount)]]
          ELSE [err |-> NoErr, update |-> TRUE, accounts |-> ac]

\* The outcome of the part of Reserve that decides: the error (NoErr when the
\* reservation is granted), whether a row is updated, and the account map with the
\* lazy reset applied (maybeReset writes through the row pointer before the check).
ReserveDecide(accts, sn, a, amount, key, t) ==
  IF IsDuplicate(sn, key)
  THEN [err |-> ErrDuplicate, update |-> FALSE, accounts |-> accts]
  ELSE IF a \notin DOMAIN accts
  THEN [err |-> NoErr, update |-> FALSE, accounts |-> accts]
  ELSE LET aq == maybeReset(accts[a], t)
           ac == [accts EXCEPT ![a] = aq]
       IN IF amount > Available(aq)
          THEN [err |-> ErrQuotaExceeded, update |-> FALSE, accounts |-> ac]
          ELSE [err |-> NoErr, update |-> TRUE, accounts |-> ac]

\* The whole of Reserve, as one step under the store's mutex.
StoreReserve(accts, sn, a, amount, key, t) ==
  LET d == ReserveDecide(accts, sn, a, amount, key, t)
  IN IF d.update
     THEN [err |-> NoErr,
           accounts |-> [d.accounts EXCEPT ![a] = AddReserved(@, amount)],
           seen |-> RecordKey(sn, key)]
     ELSE [err |-> d.err, accounts |-> d.accounts, seen |-> sn]

\* ------------------------------------------- clients of the store's API
\* Each client calls the store directly. The store's sync.RWMutex is explicit:
\* a call starts when it gets the lock (s.mu.Lock() or s.mu.RLock() blocks until
\* then), runs its body, and releases the lock on return (defer s.mu.Unlock()).
Clients == 1..MaxClients
StoreAccts == {"a1", "ghost"}
ClientKeys == {NoKey, <<0, 1>>}
Units == {QuotaTokens, QuotaRequests}

NoSnap == [exists |-> FALSE, Limit |-> 0, Used |-> 0, Reserved |-> 0, Rem |-> 0]

Snapshot(accts, a) ==
  IF a \in DOMAIN accts
  THEN [exists |-> TRUE, Limit |-> accts[a].DailyLimit, Used |-> accts[a].Used,
        Reserved |-> accts[a].Reserved, Rem |-> StoreRemaining(accts, a)]
  ELSE NoSnap

\* The policy client before its call: input slice `in`, and after it: the policy
\* called, the slice returned (out) and the caller's slice as the call left it.
\* The second goroutine has not called Close.
NoCloser == [pc |-> "idle", isSuccess |-> FALSE, closeErr |-> NoErr, sawClosed |-> FALSE]

\* Three fresh stores (no rows, no keys) on which no call has been made; `held`
\* are the reservations all three granted and that were not consumed yet, and
\* `common` tells whether the calls so far were all made before the first reset
\* time, with no SetQuota on an existing row and no idempotency key on an
\* account without a row.
FreshStore == [accounts |-> <<>>, seen |-> {}]
NoTri ==
  [memory |-> FreshStore, redis |-> FreshStore, postgres |-> FreshStore,
   op |-> "none", out |-> <<>>, held |-> {}, n |-> 0, common |-> TRUE]

NoSelect == [policy |-> "none", in |-> <<>>, out |-> <<>>, after |-> <<>>]

NoOp ==
  [op |-> "none", acct |-> "a1", amount |-> 0, key |-> NoKey, unit |-> QuotaTokens,
   actual |-> 0, rid |-> <<0, 0>>, err |-> NoErr, ret |-> 0,
   pre |-> NoSnap, post |-> NoSnap, reset |-> FALSE, dirty |-> FALSE]

\* Other activity on account a: every outstanding reservation of a but `except`
\* has seen the row change under it.
Touch(h, a, except) ==
  {IF r.acct = a /\ r.id # except THEN [r EXCEPT !.dirty = TRUE] ELSE r : r \in h}

\* A lock that excludes nobody.
CanLockBroken(m) == TRUE
CanLock(m) == m.writer = 0 /\ m.readers = {}
CanRLock(m) == m.writer = 0

IsReadOp(op) == op = "Remaining"

ClientCallReserve(c, a, amount, key) ==
  /\ cpc[c] = "idle" /\ nops < MaxOps
  /\ cop' = [cop EXCEPT ![c] = [NoOp EXCEPT !.op = "Reserve", !.acct = a,
                                  !.amount = amount, !.key = key]]
  /\ CanLock(mu)
  /\ mu' = [mu EXCEPT !.writer = c]
  /\ cpc' = [cpc EXCEPT ![c] = "body"]
  /\ UNCHANGED <<now, accounts, seen, held, keyOK, rolled>>
  /\ nops' = nops + 1
  /\ UNCHANGED routerVars

ClientCallConsume(c, op, r, actual) ==
  /\ cpc[c] = "idle" /\ nops < MaxOps
  /\ r \in held /\ r.owner = 0
  /\ held' = (held \ {r}) \cup {[r EXCEPT !.owner = c]}
  /\ cop' = [cop EXCEPT ![c] = [NoOp EXCEPT !.op = op, !.acct = r.acct,
                                  !.amount = r.amount, !.rid = r.id,
                                  !.actual = actual]]
  /\ CanLock(mu)
  /\ mu' = [mu EXCEPT !.writer = c]
  /\ cpc' = [cpc EXCEPT ![c] = "body"]
  /\ UNCHANGED <<now, accounts, seen, keyOK, rolled>>
  /\ nops' = nops + 1
  /\ UNCHANGED routerVars

ClientCallRemaining(c, a) ==
  /\ cpc[c] = "idle" /\ nops < MaxOps
  /\ cop' = [cop EXCEPT ![c] = [NoOp EXCEPT !.op = "Remaining", !.acct = a]]
  /\ CanRLock(mu)
  /\ mu' = [mu EXCEPT !.readers = @ \cup {c}]
  /\ cpc' = [cpc EXCEPT ![c] = "body"]
  /\ UNCHANGED <<now, accounts, seen, held, keyOK, rolled>>
  /\ nops' = nops + 1
  /\ UNCHANGED routerVars

ClientCallSetQuota(c, a, limit, unit) ==
  /\ cpc[c] = "idle" /\ nops < MaxOps
  /\ cop' = [cop EXCEPT ![c] = [NoOp EXCEPT !.op = "SetQuota", !.acct = a,
                                  !.amount = limit, !.unit = unit]]
  /\ CanLock(mu)
  /\ mu' = [mu EXCEPT !.writer = c]
  /\ cpc' = [cpc EXCEPT ![c] = "body"]
  /\ UNCHANGED <<now, accounts, seen, held, keyOK, rolled>>
  /\ nops' = nops + 1
  /\ UNCHANGED routerVars

\* Reserve up to the availability check: idempotency check, row lookup, lazy
\* reset, available >= amount.
ReserveCheck(c) ==
  /\ cpc[c] = "body" /\ cop[c].op = "Reserve"
  /\ LET o == cop[c]
         d == ReserveDecide(accounts, seen, o.acct, o.amount, o.key, now)
         fired == o.acct \in DOMAIN accounts /\ d.accounts # accounts
         synth == d.err = NoErr /\ ~d.update
         rid == <<c, nops>>
     IN /\ accounts' = d.accounts
        /\ cop' = [cop EXCEPT ![c] = [o EXCEPT !.err = d.err, !.rid = rid,
                                       !.pre = Snapshot(accounts, o.acct),
                                       !.reset = fired]]
        /\ cpc' = [cpc EXCEPT ![c] = IF d.update THEN "update" ELSE "unlock"]
        /\ held' = IF synth
                   THEN held \cup {[id |-> rid, acct |-> o.acct, amount |-> o.amount,
                                    owner |-> 0, pre |-> Snapshot(accounts, o.acct),
                                    reset |-> FALSE, dirty |-> FALSE, key |-> o.key]}
                   ELSE IF fired THEN Touch(held, o.acct, rid) ELSE held
        /\ keyOK' = IF synth /\ o.key # NoKey
                    THEN [keyOK EXCEPT ![<<o.acct, o.key>>] = Min(2, @ + 1)]
                    ELSE keyOK
  /\ UNCHANGED <<now, seen, mu, nops, rolled>>
  /\ UNCHANGED routerVars

\* aq.Reserved += amount; s.seen[key] = true; return the reservation.
ReserveUpdate(c) ==
  /\ cpc[c] = "update"
  /\ LET o == cop[c]
     IN /\ accounts' = [accounts EXCEPT ![o.acct] = AddReserved(@, o.amount)]
        /\ seen' = RecordKey(seen, o.key)
        /\ held' = Touch(held, o.acct, o.rid) \cup
                     {[id |-> o.rid, acct |-> o.acct, amount |-> o.amount,
                       owner |-> 0, pre |-> o.pre, reset |-> o.reset,
                       dirty |-> FALSE, key |-> o.key]}
        /\ keyOK' = IF o.key # NoKey
                    THEN [keyOK EXCEPT ![<<o.acct, o.key>>] = Min(2, @ + 1)]
                    ELSE keyOK
  /\ cpc' = [cpc EXCEPT ![c] = "unlock"]
  /\ UNCHANGED <<now, mu, cop, nops, rolled>>
  /\ UNCHANGED routerVars

ConsumeBody(c) ==
  /\ cpc[c] = "body" /\ cop[c].op \in {"Commit", "Rollback"}
  /\ LET o == cop[c]
         r == CHOOSE x \in held : x.id = o.rid
     IN /\ accounts' = IF o.op = "Commit"
                       THEN StoreCommit(accounts, o.acct, o.amount, o.actual)
                       ELSE StoreRollback(accounts, o.acct, o.amount)
        /\ held' = Touch(held \ {r}, o.acct, o.rid)
        /\ rolled' = IF o.op = "Rollback" /\ r.key # NoKey
                     THEN rolled \cup {<<o.acct, r.key>>}
                     ELSE rolled
        /\ cop' = [cop EXCEPT ![c] = [o EXCEPT !.pre = r.pre, !.reset = r.reset,
                                       !.dirty = r.dirty,
                                       !.post = Snapshot(accounts', o.acct)]]
  /\ cpc' = [cpc EXCEPT ![c] = "unlock"]
  /\ UNCHANGED <<now, seen, mu, nops, keyOK>>
  /\ UNCHANGED routerVars

RemainingBody(c) ==
  /\ cpc[c] = "body" /\ cop[c].op = "Remaining"
  /\ LET o == cop[c]
     IN cop' = [cop EXCEPT ![c] = [o EXCEPT !.ret = StoreRemaining(accounts, o.acct)]]
  /\ cpc' = [cpc EXCEPT ![c] = "unlock"]
  /\ UNCHANGED <<now, accounts, seen, mu, nops, held, keyOK, rolled>>
  /\ UNCHANGED routerVars

SetQuotaBody(c) ==
  /\ cpc[c] = "body" /\ cop[c].op = "SetQuota"
  /\ LET o == cop[c]
     IN /\ accounts' = StoreSetQuota(accounts, o.acct, o.amount, o.unit, now)
        /\ held' = Touch(held, o.acct, <<0, 0>>)
  /\ cpc' = [cpc EXCEPT ![c] = "unlock"]
  /\ UNCHANGED <<now, seen, mu, cop, nops, keyOK, rolled>>
  /\ UNCHANGED routerVars

\* defer s.mu.Unlock() / s.mu.RUnlock(), and the call returns.
Release(c) ==
  /\ cpc[c] = "unlock"
  /\ mu' = IF IsReadOp(cop[c].op)
           THEN [mu EXCEPT !.readers = @ \ {c}]
           ELSE [mu EXCEPT !.writer = 0]
  /\ cop' = [cop EXCEPT ![c] = NoOp]
  /\ cpc' = [cpc EXCEPT ![c] = "idle"]
  /\ UNCHANGED <<now, accounts, seen, nops, held, keyOK, rolled>>
  /\ UNCHANGED routerVars

\* ------------------------------------------------------------ HealthTracker
HealthHealthy == "healthy"
HealthUnhealthy == "unhealthy"
HealthHalfOpen == "half-open"

HealthConfig(threshold, window, period) ==
  [FailureThreshold |-> threshold, FailureWindow |-> window, UnhealthyPeriod |-> period]

\* The HealthConfig of the router's tracker, in ticks.
DefaultHealthConfig == HealthConfig(2, 1, 1)

\* h.cfg
HealthCfg == hcfg

NewAccountHealth == [state |-> HealthHealthy, failures |-> <<>>, unhealthyAt |-> 0]

getOrCreate(hm, a) ==
  IF a \in DOMAIN hm THEN hm
  ELSE [x \in (DOMAIN hm) \cup {a} |-> IF x = a THEN NewAccountHealth ELSE hm[x]]

\* A GetHealth that does not wait for the unhealthy period.
GetHealthMapEager(hm, a, t) ==
  IF a \notin DOMAIN hm THEN hm
  ELSE IF hm[a].state = HealthUnhealthy
       THEN [hm EXCEPT ![a].state = HealthHalfOpen]
       ELSE hm
\* GetHealth: the tracker after the call (unhealthy -> half-open once the
\* unhealthy period has elapsed; an account never seen gets no entry) ...
GetHealthMap(hm, a, t) ==
  IF a \notin DOMAIN hm THEN hm
  ELSE IF hm[a].state = HealthUnhealthy
          /\ t - hm[a].unhealthyAt >= HealthCfg.UnhealthyPeriod
       THEN [hm EXCEPT ![a].state = HealthHalfOpen]
       ELSE hm

\* ... and the state it returns.
GetHealth(hm, a, t) ==
  IF a \notin DOMAIN hm THEN HealthHealthy ELSE GetHealthMap(hm, a, t)[a].state

\* A RecordSuccess that keeps the failure window.
RecordSuccessKeepsWindow(hm, a) ==
  [getOrCreate(hm, a) EXCEPT ![a].state = HealthHealthy]
RecordSuccess(hm, a) ==
  [getOrCreate(hm, a) EXCEPT ![a].state = HealthHealthy, ![a].failures = <<>>]

\* A RecordFailure that trips only above the threshold.
RecordFailureLate(hm, a, t) ==
  LET h == getOrCreate(hm, a)
      ah == h[a]
      valid == SelectSeq(ah.failures, LAMBDA f : f > t - HealthCfg.FailureWindow)
      fs == Append(valid, t)
  IN IF ah.state = HealthUnhealthy THEN h
     ELSE IF Len(fs) > HealthCfg.FailureThreshold
     THEN [h EXCEPT ![a] = [state |-> HealthUnhealthy, failures |-> fs,
                            unhealthyAt |-> t]]
     ELSE [h EXCEPT ![a].failures = fs]
\* A RecordFailure that also counts the failures of an unhealthy account.
RecordFailureExtends(hm, a, t) ==
  LET h == getOrCreate(hm, a)
      ah == h[a]
      valid == SelectSeq(ah.failures, LAMBDA f : f > t - HealthCfg.FailureWindow)
      fs == Append(valid, t)
  IN IF Len(fs) >= HealthCfg.FailureThreshold
     THEN [h EXCEPT ![a] = [state |-> HealthUnhealthy, failures |-> fs,
                            unhealthyAt |-> t]]
     ELSE [h EXCEPT ![a].failures = fs]
RecordFailure(hm, a, t) ==
  LET h == getOrCreate(hm, a)
      ah == h[a]
      valid == SelectSeq(ah.failures, LAMBDA f : f > t - HealthCfg.FailureWindow)
      fs == Append(valid, t)
  IN IF ah.state = HealthUnhealthy THEN h
     ELSE IF Len(fs) >= HealthCfg.FailureThreshold
     THEN [h EXCEPT ![a] = [state |-> HealthUnhealthy, failures |-> fs,
                            unhealthyAt |-> t]]
     ELSE [h EXCEPT ![a].failures = fs]

\* A call on the tracker's API, as its caller saw it: the account's entry before
\* the call (a fresh entry when there was none) and the state GetHealth returned.
NoHealthOp ==
  [op |-> "none", acct |-> "a1", at |-> 0, before |-> NewAccountHealth,
   got |-> HealthHealthy]

HealthOp(op, a, t, hm, got) ==
  [op |-> op, acct |-> a, at |-> t, before |-> getOrCreate(hm, a)[a], got |-> got]

\* ------------------------------------------------------------- SpendTracker
\* time.Now().UTC().YearDay()
YearDay(t) == ((t \div DayLen) % DaysInYear) + 1

NewSpendTracker(t) == [accounts |-> <<>>, resetDay |-> YearDay(t)]

checkReset(st, t) ==
  IF YearDay(t) # st.resetDay
  THEN [accounts |-> <<>>, resetDay |-> YearDay(t)]
  ELSE st

RecordSpend(st, a, dollars, t) ==
  LET s == checkReset(st, t)
      old == IF a \in DOMAIN s.accounts THEN s.accounts[a] ELSE 0
  IN [s EXCEPT !.accounts = [x \in (DOMAIN s.accounts) \cup {a} |->
                               IF x = a THEN old + dollars ELSE s.accounts[x]]]

\* GetSpend: the amount it returns ...
GetSpend(st, a, t) ==
  IF a \in DOMAIN checkReset(st, t).accounts THEN checkReset(st, t).accounts[a] ELSE 0

\* ------------------------------------------------------ errors, estimate
\* An error that is none of the sentinel errors (a cancelled context, say).
ErrOther == "other error"
EOF == "EOF"
ErrCanceled == "context canceled"
ErrCommitFailed == "commit failed"

\* fmt.Errorf("quota operation failed: %w", quotaErr)
QuotaOpFailed(quotaErr) == <<"quota operation failed", quotaErr>>

\* ------------------------------------------------ quota/redis Store
\* The rows are the account hashes (daily_limit, used, reserved, unit, reset_at);
\* `sn` is the set of idempotency keys, each with the time it was set. Every Lua
\* script runs atomically.
IdemTTL == DayLen

RedisLive(sn, t) == {e \in sn : t < e.at + IdemTTL}

\* SET idem_key "1" NX EX 86400 returns nil: the key exists and has not expired.
RedisSetNXFails(sn, key, t) == key # NoKey /\ \E e \in RedisLive(sn, t) : e.key = key

RedisSetNX(sn, key, t) ==
  IF key = NoKey THEN RedisLive(sn, t)
  ELSE {e \in RedisLive(sn, t) : e.key # key} \cup {[key |-> key, at |-> t]}

\* if now >= reset_at then HSET used 0 reserved 0 reset_at next_midnight
RedisReset(aq, t) ==
  IF t >= aq.ResetAt
  THEN [aq EXCEPT !.Used = 0, !.Reserved = 0, !.ResetAt = nextMidnightUTC(t)]
  ELSE aq

\* reserveScript, and Reserve's switch on its result.
RedisReserve(accts, sn, a, amount, key, t) ==
  IF RedisSetNXFails(sn, key, t)
  THEN [err |-> ErrDuplicate, accounts |-> accts, seen |-> RedisLive(sn, t)]
  ELSE IF a \notin DOMAIN accts
  THEN [err |-> NoErr, accounts |-> accts, seen |-> RedisSetNX(sn, key, t)]
  ELSE LET aq == RedisReset(accts[a], t)
       IN IF amount > Available(aq)
          THEN [err |-> ErrQuotaExceeded, accounts |-> [accts EXCEPT ![a] = aq],
                seen |-> {e \in RedisLive(sn, t) : e.key # key}]
          ELSE [err |-> NoErr, accounts |-> [accts EXCEPT ![a] = AddReserved(aq, amount)],
                seen |-> RedisSetNX(sn, key, t)]

\* commitScript
RedisCommit(accts, a, amount, actual) ==
  IF a \notin DOMAIN accts THEN accts
  ELSE [accts EXCEPT ![a] = [@ EXCEPT !.Reserved = @ - amount, !.Used = @ + actual]]

\* rollbackScript
RedisRollback(accts, a, amount) ==
  IF a \notin DOMAIN accts THEN accts
  ELSE [accts EXCEPT ![a] = [@ EXCEPT !.Reserved = @ - amount]]

\* Remaining: HMGET, then the lazy reset on the values read, nothing written.
RedisRemaining(accts, a, t) ==
  IF a \notin DOMAIN accts THEN 0
  ELSE LET aq == accts[a]
           available == IF t >= aq.ResetAt THEN aq.DailyLimit ELSE Available(aq)
       IN IF available < 0 THEN 0 ELSE available

\* SetQuota: a new hash, or daily_limit and unit of the existing one.
RedisSetQuota(accts, a, limit, unit, t) ==
  IF a \notin DOMAIN accts
  THEN [x \in (DOMAIN accts) \cup {a} |->
          IF x = a THEN NewRow(limit, unit, t) ELSE accts[x]]
  ELSE [accts EXCEPT ![a] = [@ EXCEPT !.DailyLimit = limit, !.Unit = unit]]

\* --------------------------------------------- quota/postgres Store
\* The rows of the quotas table and the keys of the idempotency table.
\* UPDATE ... SET used = 0, reserved = 0, reset_at = $1 WHERE ... reset_at <= now
PostgresReset(aq, t) ==
  IF aq.ResetAt <= t
  THEN [aq EXCEPT !.Used = 0, !.Reserved = 0, !.ResetAt = nextMidnightUTC(t)]
  ELSE aq

\* Reserve: one transaction. It is committed when the reservation is granted and
\* when the account has no row; every other return leaves it to the deferred
\* tx.Rollback, which undoes the key and the reset.
PostgresReserve(accts, sn, a, amount, key, t) ==
  IF IsDuplicate(sn, key)
  THEN [err |-> ErrDuplicate, accounts |-> accts, seen |-> sn]
  ELSE IF a \notin DOMAIN accts
  THEN [err |-> NoErr, accounts |-> accts, seen |-> RecordKey(sn, key)]
  ELSE LET aq == PostgresReset(accts[a], t)
       IN IF Available(aq) >= amount
          THEN [err |-> NoErr, accounts |-> [accts EXCEPT ![a] = AddReserved(aq, amount)],
                seen |-> RecordKey(sn, key)]
          ELSE [err |-> ErrQuotaExceeded, accounts |-> accts, seen |-> sn]

\* UPDATE ... SET reserved = reserved - $1, used = used + $2 WHERE account_id = $3
PostgresCommit(accts, a, amount, actual) ==
  IF a \notin DOMAIN accts THEN accts
  ELSE [accts EXCEPT ![a] = [@ EXCEPT !.Reserved = @ - amount, !.Used = @ + actual]]

\* UPDATE ... SET reserved = reserved - $1 WHERE account_id = $2
PostgresRollback(accts, a, amount) ==
  IF a \notin DOMAIN accts THEN accts
  ELSE [accts EXCEPT ![a] = [@ EXCEPT !.Reserved = @ - amount]]

PostgresRemaining(accts, a, t) ==
  IF a \notin DOMAIN accts THEN 0
  ELSE LET aq == accts[a]
           available == IF t > aq.ResetAt \/ t = aq.ResetAt
                        THEN aq.DailyLimit ELSE Available(aq)
       IN IF available < 0 THEN 0 ELSE available

\* INSERT ... ON CONFLICT (account_id) DO UPDATE SET daily_limit = $2, unit = $3
PostgresSetQuota(accts, a, limit, unit, t) ==
  IF a \notin DOMAIN accts
  THEN [x \in (DOMAIN accts) \cup {a} |->
          IF x = a THEN NewRow(limit, unit, t) ELSE accts[x]]
  ELSE [accts EXCEPT ![a] = [@ EXCEPT !.DailyLimit = limit, !.Unit = unit]]

\* -------------------------------------------- the Router's quota store
\* r.quotaStore: the store given with WithQuotaStore (the Store field of the
\* router's construction parameters), else the noopQuotaStore.
StoreMemory == "quota.MemoryQuotaStore"
StoreRedis == "quota/redis.Store"
StorePostgres == "quota/postgres.Store"
StoreNoop == "noopQuotaStore"

StoreKind(c) == IF "Store" \in DOMAIN c THEN c.Store ELSE StoreMemory

\* The Redis client and the pgx pool return the context's error for a call made
\* with a context that is done; the memory and no-op stores ignore the context.
CtxRefused(kind, ctxDone) == ctxDone /\ kind \in {StoreRedis, StorePostgres}

QuotaRemaining(kind, accts, a, t, ctxDone) ==
  IF CtxRefused(kind, ctxDone) \/ kind = StoreNoop THEN 0
  ELSE IF kind = StoreRedis THEN RedisRemaining(accts, a, t)
  ELSE IF kind = StorePostgres THEN PostgresRemaining(accts, a, t)
  ELSE StoreRemaining(accts, a)

QuotaReserve(kind, accts, sn, a, amount, key, t, ctxDone) ==
  IF CtxRefused(kind, ctxDone)
  THEN [err |-> ErrCanceled, accounts |-> accts, seen |-> sn]
  ELSE IF kind = StoreNoop THEN [err |-> NoErr, accounts |-> accts, seen |-> sn]
  ELSE IF kind = StoreRedis THEN RedisReserve(accts, sn, a, amount, key, t)
  ELSE IF kind = StorePostgres THEN PostgresReserve(accts, sn, a, amount, key, t)
  ELSE StoreReserve(accts, sn, a, amount, key, t)

QuotaCommit(kind, accts, a, amount, actual, ctxDone) ==
  IF CtxRefused(kind, ctxDone) THEN [err |-> ErrCanceled, accounts |-> accts]
  ELSE [err |-> NoErr,
        accounts |-> IF kind = StoreNoop THEN accts
                     ELSE IF kind = StoreRedis THEN RedisCommit(accts, a, amount, actual)
                     ELSE IF kind = StorePostgres
                     THEN PostgresCommit(accts, a, amount, actual)
                     ELSE StoreCommit(accts, a, amount, actual)]

QuotaRollback(kind, accts, a, amount, ctxDone) ==
  IF CtxRefused(kind, ctxDone) THEN [err |-> ErrCanceled, accounts |-> accts]
  ELSE [err |-> NoErr,
        accounts |-> IF kind = StoreNoop THEN accts
                     ELSE IF kind = StoreRedis THEN RedisRollback(accts, a, amount)
                     ELSE IF kind = StorePostgres THEN PostgresRollback(accts, a, amount)
                     ELSE StoreRollback(accts, a, amount)]

\* A classification that forgets InvalidRequest.
IsFatalAuthOnly(err) == err \in {ErrAuthFailed}
IsFatal(err) == err \in {ErrAuthFailed, ErrInvalidRequest}

IsRetryable(err) == err \in {ErrRateLimited, ErrProviderUnavailable, ErrQuotaExceeded}

RECURSIVE EstimateSum(_)
EstimateSum(lens) ==
  IF lens = <<>> THEN 0 ELSE (Head(lens) \div 4) + 4 + EstimateSum(Tail(lens))

\* EstimateTokens over the messages' content lengths.
EstimateTokens(lens) == EstimateSum(lens) + 3

\* -------------------------------------------------------- configuration
\* An AccountConfig; Models is what modelsForAccount yields for the account and
\* the requested model (empty when its provider is missing or lacks the model).
AccountConfig(id, free, unit, paid, cost, models) ==
  [ID |-> id, DailyFree |-> free, QuotaUnit |-> unit, PaidEnabled |-> paid,
   CostPerToken |-> cost, MaxDailySpend |-> 0, Models |-> models]

NoConfig == [AllowPaid |-> FALSE, Accounts |-> <<>>]

CfgFree ==
  [AllowPaid |-> FALSE,
   Accounts |-> <<AccountConfig("a1", 10, QuotaTokens, FALSE, 0, <<"m">>),
                  AccountConfig("a2", 1, QuotaRequests, FALSE, 0, <<"m">>)>>]

CfgMixed ==
  [AllowPaid |-> TRUE,
   Accounts |-> <<AccountConfig("a2", 1, QuotaRequests, FALSE, 0, <<"m">>),
                  AccountConfig("p1", 0, QuotaTokens, TRUE, 1, <<"m">>)>>]

RouterConfigs == {CfgFree, CfgMixed}

\* NewRouter: every account with a free allowance, or without paid mode, gets its
\* quota row.
RECURSIVE InitQuota(_, _, _)
InitQuota(accts, accs, t) ==
  IF accs = <<>> THEN accts
  ELSE LET acc == Head(accs)
       IN InitQuota(IF acc.DailyFree > 0 \/ ~acc.PaidEnabled
                    THEN StoreSetQuota(accts, acc.ID, acc.DailyFree, acc.QuotaUnit, t)
                    ELSE accts,
                    Tail(accs), t)

\* ---------------------------------------------------- candidate pipeline
\* The Candidate buildCandidates makes for one account and model; it leaves
\* MaxDailySpend and CurrentSpend at their zero values.
Candidate(acc, model, remaining, h) ==
  [AccountID |-> acc.ID, Model |-> model,
   Free |-> (acc.DailyFree > 0 /\ remaining > 0), Remaining |-> remaining,
   QuotaUnit |-> acc.QuotaUnit, Health |-> h, CostPerToken |-> acc.CostPerToken,
   CostPerInputToken |-> 0, CostPerOutputToken |-> 0,
   MaxDailySpend |-> 0, CurrentSpend |-> 0]

\* The first account at or after index i that yields a model.
RECURSIVE SkipNoModels(_, _)
SkipNoModels(accs, i) ==
  IF i > Len(accs) THEN i
  ELSE IF accs[i].Models = <<>> THEN SkipNoModels(accs, i + 1) ELSE i

\* A filter that ignores allow_paid.
filterCandidatesAllowsPaid(cands, allowPaid) ==
  SelectSeq(cands, LAMBDA c : ~(c.Health = HealthUnhealthy))
\* A filter that lets Unhealthy candidates through.
filterCandidatesKeepsUnhealthy(cands, allowPaid) ==
  SelectSeq(cands, LAMBDA c : ~(~c.Free /\ ~allowPaid))
filterCandidates(cands, allowPaid) ==
  SelectSeq(cands, LAMBDA c : ~(c.Health = HealthUnhealthy) /\ ~(~c.Free /\ ~allowPaid))

defaultFreeFirstPolicy(cands) ==
  SelectSeq(cands, LAMBDA c : c.Free) \o SelectSeq(cands, LAMBDA c : ~c.Free)

\* Candidate.BlendedCost, times 3 to stay in the integers:
\* (CostPerInputToken + 2*CostPerOutputToken) / 3 when either is set, else
\* CostPerToken.
BlendedCost(c) ==
  IF c.CostPerInputToken > 0 \/ c.CostPerOutputToken > 0
  THEN c.CostPerInputToken + 2 * c.CostPerOutputToken
  ELSE 3 * c.CostPerToken

\* The less function of FreeFirstPolicy.Select: free before paid, free by most
\* remaining, paid by cheapest.
FreeFirstLess(ci, cj) ==
  IF ci.Free # cj.Free THEN ci.Free
  ELSE IF ci.Free THEN ci.Remaining > cj.Remaining
  ELSE BlendedCost(ci) < BlendedCost(cj)

\* sort.SliceStable: x goes before the first element it is less than.
RECURSIVE InsertStable(_, _)
InsertStable(sorted, x) ==
  IF sorted = <<>> THEN <<x>>
  ELSE IF FreeFirstLess(x, Head(sorted)) THEN <<x>> \o sorted
  ELSE <<Head(sorted)>> \o InsertStable(Tail(sorted), x)

RECURSIVE SliceStable(_)
SliceStable(cands) ==
  IF cands = <<>> THEN <<>>
  ELSE InsertStable(SliceStable(SubSeq(cands, 1, Len(cands) - 1)), cands[Len(cands)])

\* The sequence backwards.
Reverse(sq) == [i \in 1..Len(sq) |-> sq[Len(sq) + 1 - i]]

\* A free-first sort that puts later equal candidates first.
FreeFirstPolicyReversesTies(cands) == Reverse(SliceStable(Reverse(cands)))

\* The less function of CostFirstPolicy.Select.
CostFirstLess(ci, cj) == BlendedCost(ci) < BlendedCost(cj)

RECURSIVE CostInsertStable(_, _)
CostInsertStable(sorted, x) ==
  IF sorted = <<>> THEN <<x>>
  ELSE IF CostFirstLess(x, Head(sorted)) THEN <<x>> \o sorted
  ELSE <<Head(sorted)>> \o CostInsertStable(Tail(sorted), x)

RECURSIVE CostSliceStable(_)
CostSliceStable(cands) ==
  IF cands = <<>> THEN <<>>
  ELSE CostInsertStable(CostSliceStable(SubSeq(cands, 1, Len(cands) - 1)),
                        cands[Len(cands)])

\* policy.CostFirstPolicy.Select
CostFirstPolicySelect(cands) == CostSliceStable(cands)

\* A free-first policy that keeps the free candidates in their input order.
FreeFirstPolicyKeepsOrder(cands) ==
  SelectSeq(cands, LAMBDA c : c.Free) \o
    SliceStable(SelectSeq(cands, LAMBDA c : ~c.Free))

\* policy.FreeFirstPolicy.Select
FreeFirstPolicySelect(cands) == SliceStable(cands)

\* r.policy: the policy given with WithPolicy (the Policy field of the router's
\* construction parameters), else defaultFreeFirstPolicy.
PolicyFreeFirst == "policy.FreeFirstPolicy"
PolicySelect(c, cands) ==
  IF "Policy" \in DOMAIN c /\ c.Policy = PolicyFreeFirst
  THEN FreeFirstPolicySelect(cands)
  ELSE defaultFreeFirstPolicy(cands)

calculateSpend(c, usage) == IF c.CostPerToken > 0 THEN usage * c.CostPerToken ELSE 0

\* ------------------------------------------------------ Router calls
\* Each process makes one call at a time: ChatCompletion ("sync") or
\* ChatCompletionStream ("stream") followed by Next and Close on the stream.
Procs == 1..MaxProcs
Kinds == {"sync", "stream"}
MessageLens == {<<5>>}
UsageTotals == {2, 11}
ProviderErrors == {ErrRateLimited, ErrAuthFailed, ErrInvalidRequest}

NoLocals ==
  [kind |-> "sync", est |-> 0, i |-> 0, m |-> 0, rem |-> 0, cands |-> <<>>, n |-> 0,
   lastErr |-> NoErr, perr |-> NoErr, usage |-> 0, nkey |-> 0, built |-> <<>>,
   ctxDone |-> FALSE]

NoRet == [state |-> "none", err |-> NoErr, attempts |-> 0, acct |-> "", free |-> FALSE]

\* A RouterStream's fields, then what its Close calls did: the fault the store
\* had of its own (storeFault), the error the quota call returned (quotaErr), the
\* Error of the OnResult event (resultErr) and the value the last Close returned;
\* sawErr tells whether any Next call returned an error other than end-of-stream.
NoStream ==
  [closed |-> FALSE, streamErr |-> NoErr, totalUsage |-> 0, isSuccess |-> FALSE,
   closeErr |-> NoErr, nexts |-> 0, closes |-> 0, storeFault |-> NoErr,
   quotaErr |-> NoErr, resultErr |-> NoErr, closeRet |-> NoErr, sawErr |-> FALSE]

\* The i-th candidate tried: the reservation asked for, what Reserve returned,
\* whether the provider was invoked and with what result, the Commit and Rollback
\* calls made on it by ChatCompletion and what the last of them returned (qerr),
\* and the OnRoute and OnResult events emitted for it.
NewAttempt(c, amount, rerr) ==
  [acct |-> c.AccountID, amount |-> amount, rerr |-> rerr, resv |-> (rerr = NoErr),
   called |-> FALSE, perr |-> NoErr, commits |-> 0, rollbacks |-> 0, actual |-> 0,
   routes |-> IF rerr = NoErr THEN 1 ELSE 0, results |-> 0, success |-> FALSE,
   qerr |-> NoErr]

\* A reserve amount that ignores the quota unit.
ReserveAmountAnyUnit(c, est) == est
ReserveAmount(c, est) == IF c.QuotaUnit = QuotaRequests THEN 1 ELSE est

ActualTokens(c, total) == IF c.QuotaUnit = QuotaRequests THEN 1 ELSE total

\* return ..., err
ReturnErr(p, err, attempts, acct) ==
  ret' = [ret EXCEPT ![p] = [NoRet EXCEPT !.state = "err", !.err = err,
                              !.attempts = attempts, !.acct = acct]]

\* return ChatResponse{... Routing ...}, nil  /  return &RouterStream{...}, nil
ReturnOK(p, c, attempts) ==
  ret' = [ret EXCEPT ![p] = [NoRet EXCEPT !.state = "ok", !.attempts = attempts,
                              !.acct = c.AccountID, !.free = c.Free]]

\* The candidates are built, filtered and ordered; the attempt loop starts, or the
\* call returns ErrNoCandidates. `built` keeps what buildCandidates returned.
StartLoop(p, l, cands) ==
  LET ordered == PolicySelect(cfg, filterCandidates(cands, cfg.AllowPaid))
  IN IF filterCandidates(cands, cfg.AllowPaid) = <<>>
     THEN /\ rpc' = [rpc EXCEPT ![p] = "done"]
          /\ rl' = [rl EXCEPT ![p] = [l EXCEPT !.cands = <<>>, !.built = cands]]
          /\ ReturnErr(p, ErrNoCandidates, 0, "")
     ELSE /\ rpc' = [rpc EXCEPT ![p] = "reserve"]
          /\ rl' = [rl EXCEPT ![p] = [l EXCEPT !.cands = ordered, !.n = 1,
                                              !.built = cands]]
          /\ UNCHANGED ret

\* A loop that gives up after the first failure.
ContinueGivesUp(p, l, err) ==
  /\ rpc' = [rpc EXCEPT ![p] = "done"]
  /\ rl' = [rl EXCEPT ![p] = [l EXCEPT !.lastErr = err]]
  /\ ReturnErr(p, ErrAllFailed, Len(l.cands), "")

\* A loop whose final error counts only the candidates whose provider was called.
ContinueCountsCalls(p, l, err) ==
  IF l.n < Len(l.cands)
  THEN /\ rpc' = [rpc EXCEPT ![p] = "reserve"]
       /\ rl' = [rl EXCEPT ![p] = [l EXCEPT !.lastErr = err, !.n = @ + 1]]
       /\ UNCHANGED ret
  ELSE /\ rpc' = [rpc EXCEPT ![p] = "done"]
       /\ rl' = [rl EXCEPT ![p] = [l EXCEPT !.lastErr = err]]
       /\ ReturnErr(p, ErrAllFailed,
                    Cardinality({i \in 1..Len(att[p]) : att[p][i].called}), "")

\* `continue` with lastErr = err: the next candidate, or the end of the loop.
Continue(p, l, err) ==
  IF l.n < Len(l.cands)
  THEN /\ rpc' = [rpc EXCEPT ![p] = "reserve"]
       /\ rl' = [rl EXCEPT ![p] = [l EXCEPT !.lastErr = err, !.n = @ + 1]]
       /\ UNCHANGED ret
  ELSE /\ rpc' = [rpc EXCEPT ![p] = "done"]
       /\ rl' = [rl EXCEPT ![p] = [l EXCEPT !.lastErr = err]]
       /\ ReturnErr(p, ErrAllFailed, Len(l.cands), "")

\* The processes inside ChatCompletionStream or holding the stream it returned.
OpenStreams == {q \in Procs : rpc[q] # "idle" /\ rl[q].kind = "stream"}

RouterBegin(p, kind, lens) ==
  /\ rpc[p] = "idle" /\ nreq < MaxReqs
  /\ kind = "stream" => Cardinality(OpenStreams) < MaxStreams
  /\ nreq' = nreq + 1
  /\ LET l == [NoLocals EXCEPT !.kind = kind, !.est = EstimateTokens(lens),
                               !.nkey = rl[p].nkey,
                               !.i = SkipNoModels(cfg.Accounts, 1), !.m = 1]
     IN IF l.i > Len(cfg.Accounts)
        THEN StartLoop(p, l, <<>>)
        ELSE /\ rpc' = [rpc EXCEPT ![p] = "remaining"]
             /\ rl' = [rl EXCEPT ![p] = l]
             /\ UNCHANGED ret
  /\ UNCHANGED <<storeVars, clientVars, trackerVars, cfg, health, att, str>>

\* buildCandidates: remaining, _ := quotaStore.Remaining(ctx, acc.ID)
BuildRemaining(p) ==
  /\ rpc[p] = "remaining"
  /\ rl' = [rl EXCEPT ![p].rem = QuotaRemaining(StoreKind(cfg), accounts,
                                                 cfg.Accounts[rl[p].i].ID, now,
                                                 rl[p].ctxDone)]
  /\ rpc' = [rpc EXCEPT ![p] = "health"]
  /\ UNCHANGED <<storeVars, clientVars, trackerVars, cfg, health, att, ret, str, nreq>>

\* buildCandidates: health.GetHealth(acc.ID), the candidate is appended; after the
\* last one filterCandidates and policy.Select.
BuildHealth(p) ==
  /\ rpc[p] = "health"
  /\ LET l == rl[p]
         acc == cfg.Accounts[l.i]
         c == Candidate(acc, acc.Models[l.m], l.rem, GetHealth(health, acc.ID, now))
         cands == Append(l.cands, c)
         more == l.m < Len(acc.Models)
         i2 == IF more THEN l.i ELSE SkipNoModels(cfg.Accounts, l.i + 1)
         m2 == IF more THEN l.m + 1 ELSE 1
     IN /\ health' = GetHealthMap(health, acc.ID, now)
        /\ IF i2 > Len(cfg.Accounts)
           THEN StartLoop(p, [l EXCEPT !.i = i2, !.m = m2], cands)
           ELSE /\ rpc' = [rpc EXCEPT ![p] = "remaining"]
                /\ rl' = [rl EXCEPT ![p] = [l EXCEPT !.i = i2, !.m = m2,
                                                     !.cands = cands]]
                /\ UNCHANGED ret
  /\ UNCHANGED <<storeVars, clientVars, trackerVars, cfg, att, str, nreq>>

\* A loop that counts a refused Reserve against the account's health.
RouterReservePenalises(p) ==
  /\ rpc[p] = "reserve"
  /\ LET l == rl[p]
         c == l.cands[l.n]
         amount == ReserveAmount(c, l.est)
         r == QuotaReserve(StoreKind(cfg), accounts, seen, c.AccountID, amount,
                           <<p, l.nkey + 1>>, now, l.ctxDone)
         l2 == [l EXCEPT !.nkey = @ + 1]
     IN /\ accounts' = r.accounts
        /\ seen' = r.seen
        /\ att' = [att EXCEPT ![p] = Append(@, NewAttempt(c, amount, r.err))]
        /\ IF r.err # NoErr
           THEN /\ Continue(p, l2, r.err)
                /\ health' = RecordFailure(health, c.AccountID, now)
           ELSE /\ rpc' = [rpc EXCEPT ![p] = "call"]
                /\ rl' = [rl EXCEPT ![p] = l2]
                /\ UNCHANGED <<ret, health>>
  /\ UNCHANGED <<now, clientVars, trackerVars, cfg, str, nreq>>

\* quotaStore.Reserve(ctx, c.AccountID, reserveAmount, c.QuotaUnit, uuid); on an
\* error lastErr = err and continue, else meter.OnRoute.
RouterReserve(p) ==
  /\ rpc[p] = "reserve"
  /\ LET l == rl[p]
         c == l.cands[l.n]
         amount == ReserveAmount(c, l.est)
         r == QuotaReserve(StoreKind(cfg), accounts, seen, c.AccountID, amount,
                           <<p, l.nkey + 1>>, now, l.ctxDone)
         l2 == [l EXCEPT !.nkey = @ + 1]
     IN /\ accounts' = r.accounts
        /\ seen' = r.seen
        /\ att' = [att EXCEPT ![p] = Append(@, NewAttempt(c, amount, r.err))]
        /\ IF r.err # NoErr
           THEN Continue(p, l2, r.err)
           ELSE /\ rpc' = [rpc EXCEPT ![p] = "call"]
                /\ rl' = [rl EXCEPT ![p] = l2]
                /\ UNCHANGED ret
  /\ UNCHANGED <<now, clientVars, trackerVars, cfg, health, str, nreq>>

\* An error path that skips the Rollback.
AfterProviderLeaks(kind, err) ==
  IF err # NoErr THEN "recordFailure" ELSE IF kind = "stream" THEN "streaming" ELSE "commit"
\* Where the call goes once the provider has answered.
AfterProvider(kind, err) ==
  IF err # NoErr THEN "rollback" ELSE IF kind = "stream" THEN "streaming" ELSE "commit"

\* c.Provider.ChatCompletion / ChatCompletionStream returns: an error, or a
\* response whose Usage.TotalTokens is `total`, or an open stream.
ProviderReturns(p, err, total) ==
  /\ rpc[p] = "call"
  /\ LET l == rl[p]
         c == l.cands[l.n]
     IN /\ att' = [att EXCEPT ![p][l.n].called = TRUE, ![p][l.n].perr = err]
        /\ rl' = [rl EXCEPT ![p].perr = err, ![p].usage = total]
        /\ rpc' = [rpc EXCEPT ![p] = AfterProvider(l.kind, err)]
        /\ IF err = NoErr /\ l.kind = "stream"
           THEN /\ str' = [str EXCEPT ![p] = NoStream]
                /\ ReturnOK(p, c, l.n)
           ELSE UNCHANGED <<str, ret>>
  /\ UNCHANGED <<storeVars, clientVars, trackerVars, cfg, health, nreq>>

\* _ = r.quotaStore.Rollback(ctx, reservation)
RouterRollback(p) ==
  /\ rpc[p] = "rollback"
  /\ LET l == rl[p]
         a == att[p][l.n]
         r == QuotaRollback(StoreKind(cfg), accounts, a.acct, a.amount, l.ctxDone)
     IN /\ accounts' = r.accounts
        /\ att' = [att EXCEPT ![p][l.n].rollbacks = @ + 1, ![p][l.n].qerr = r.err]
  /\ rpc' = [rpc EXCEPT ![p] = "recordFailure"]
  /\ UNCHANGED <<now, seen, clientVars, trackerVars, cfg, health, rl, ret, str, nreq>>

\* r.health.RecordFailure(c.AccountID); meter.OnResult (ChatCompletion only);
\* a fatal error is returned at once, any other one moves on to the next candidate.
RouterRecordFailure(p) ==
  /\ rpc[p] = "recordFailure"
  /\ LET l == rl[p]
         c == l.cands[l.n]
     IN /\ health' = RecordFailure(health, c.AccountID, now)
        /\ att' = IF l.kind = "sync"
                  THEN [att EXCEPT ![p][l.n].results = @ + 1]
                  ELSE att
        /\ IF IsFatal(l.perr)
           THEN /\ rpc' = [rpc EXCEPT ![p] = "done"]
                /\ ReturnErr(p, l.perr, l.n, c.AccountID)
                /\ UNCHANGED rl
           ELSE Continue(p, l, l.perr)
  /\ UNCHANGED <<storeVars, clientVars, trackerVars, cfg, str, nreq>>

\* _ = r.quotaStore.Commit(ctx, reservation, actualTokens)
RouterCommit(p) ==
  /\ rpc[p] = "commit"
  /\ LET l == rl[p]
         c == l.cands[l.n]
         a == att[p][l.n]
         actual == ActualTokens(c, l.usage)
         r == QuotaCommit(StoreKind(cfg), accounts, a.acct, a.amount, actual, l.ctxDone)
     IN /\ accounts' = r.accounts
        /\ att' = [att EXCEPT ![p][l.n].commits = @ + 1, ![p][l.n].actual = actual,
                              ![p][l.n].qerr = r.err]
  /\ rpc' = [rpc EXCEPT ![p] = "recordSuccess"]
  /\ UNCHANGED <<now, seen, clientVars, trackerVars, cfg, health, rl, ret, str, nreq>>

\* r.health.RecordSuccess(c.AccountID); meter.OnResult; return the response.
RouterRecordSuccess(p) ==
  /\ rpc[p] = "recordSuccess"
  /\ LET l == rl[p]
         c == l.cands[l.n]
     IN /\ health' = RecordSuccess(health, c.AccountID)
        /\ att' = [att EXCEPT ![p][l.n].results = @ + 1, ![p][l.n].success = TRUE]
        /\ ReturnOK(p, c, l.n)
  /\ rpc' = [rpc EXCEPT ![p] = "done"]
  /\ UNCHANGED <<storeVars, clientVars, trackerVars, cfg, rl, str, nreq>>

\* ------------------------------------------------------- RouterStream
\* chunk.Usage == nil
NoUsage == -1
StreamErrors == {EOF, ErrOther}
StreamUsage == {11}

\* Next: inner.Next() returns err (the first error is retained), or a chunk that
\* carries a Usage with TotalTokens = total, or one that carries none; at most
\* max calls are made on one stream.
StreamNextUpTo(p, err, total, max) ==
  /\ rpc[p] = "streaming" /\ ~str[p].closed /\ str[p].nexts < max
  /\ str' = [str EXCEPT ![p] =
               [@ EXCEPT !.nexts = @ + 1,
                         !.streamErr = IF err # NoErr /\ @ = NoErr THEN err ELSE @,
                         !.totalUsage = IF err = NoErr /\ total # NoUsage
                                        THEN total ELSE @,
                         !.sawErr = @ \/ err \notin {NoErr, EOF}]]
  /\ UNCHANGED <<storeVars, clientVars, trackerVars, cfg, health, rpc, rl, att, ret, nreq>>

StreamNext(p, err, total) == StreamNextUpTo(p, err, total, MaxNext)

\* A Close that does not look at s.closed.
StreamCloseAgain(p, cerr) ==
  /\ rpc[p] = "streaming" /\ str[p].closes < MaxClose
  /\ str' = [str EXCEPT ![p].closed = TRUE, ![p].closeErr = cerr,
                        ![p].isSuccess = (str[p].streamErr \in {NoErr, EOF})]
  /\ rpc' = [rpc EXCEPT ![p] = "closeQuota"]
  /\ UNCHANGED <<storeVars, clientVars, trackerVars, cfg, health, rl, att, ret, nreq>>

\* Close, up to the quota call: a closed stream returns nil at once; else the flag
\* is set, the inner stream is closed (returning cerr) and isSuccess is computed.
StreamClose(p, cerr) ==
  /\ rpc[p] = "streaming" /\ str[p].closes < MaxClose
  /\ IF str[p].closed
     THEN /\ str' = [str EXCEPT ![p].closes = @ + 1, ![p].closeRet = NoErr]
          /\ UNCHANGED rpc
     ELSE /\ str' = [str EXCEPT ![p].closed = TRUE, ![p].closeErr = cerr,
                                ![p].isSuccess = (str[p].streamErr \in {NoErr, EOF})]
          /\ rpc' = [rpc EXCEPT ![p] = "closeQuota"]
  /\ UNCHANGED <<storeVars, clientVars, trackerVars, cfg, health, rl, att, ret, nreq>>

\* The context Close hands to the quota store, as its Done flag: the request's
\* own context (which the caller may have cancelled) ...
CloseContextOfRequest(l) == l.ctxDone
\* ... or context.Background(), which is never done.
CloseContext(l) == FALSE

\* Close: quotaStore.Commit(context.Background(), reservation, actualTokens) on
\* success, quotaStore.Rollback(context.Background(), reservation) otherwise. The
\* store refuses a call whose context is done, and may fail for a reason of its
\* own (fault); a call that fails leaves the rows as they were.
StreamCloseQuotaWith(p, fault) ==
  /\ rpc[p] = "closeQuota"
  /\ LET l == rl[p]
         c == l.cands[l.n]
         a == att[p][l.n]
         actual == ActualTokens(c, str[p].totalUsage)
         qerr == IF CloseContext(l) THEN ErrCanceled ELSE fault
     IN /\ IF str[p].isSuccess
           THEN /\ accounts' = IF qerr = NoErr
                               THEN StoreCommit(accounts, a.acct, a.amount, actual)
                               ELSE accounts
                /\ att' = [att EXCEPT ![p][l.n].commits = @ + 1,
                                      ![p][l.n].actual = actual]
           ELSE /\ accounts' = IF qerr = NoErr
                               THEN StoreRollback(accounts, a.acct, a.amount)
                               ELSE accounts
                /\ att' = [att EXCEPT ![p][l.n].rollbacks = @ + 1]
        /\ str' = [str EXCEPT ![p].storeFault = fault, ![p].quotaErr = qerr]
  /\ rpc' = [rpc EXCEPT ![p] = "closeHealth"]
  /\ UNCHANGED <<now, seen, clientVars, trackerVars, cfg, health, rl, ret, nreq>>

\* Close over the MemoryQuotaStore, whose Commit and Rollback always return nil.
StreamCloseQuota(p) == StreamCloseQuotaWith(p, NoErr)

\* The Error of the ResultEvent: the stream's error, or the quota error when the
\* stream itself had none.
ResultErr(streamErr, quotaErr) ==
  IF quotaErr # NoErr /\ streamErr \in {NoErr, EOF}
  THEN QuotaOpFailed(quotaErr)
  ELSE streamErr

\* Close: health.RecordSuccess / RecordFailure; a positive dollar cost is recorded
\* through s.spend, which ChatCompletionStream leaves nil: the call panics there.
\* Otherwise meter.OnResult and the inner stream's Close error is returned.
StreamCloseFinish(p) ==
  /\ rpc[p] = "closeHealth"
  /\ LET l == rl[p]
         c == l.cands[l.n]
         ok == str[p].isSuccess
     IN /\ health' = IF ok THEN RecordSuccess(health, c.AccountID)
                     ELSE RecordFailure(health, c.AccountID, now)
        /\ IF ok /\ calculateSpend(c, str[p].totalUsage) > 0
           THEN /\ rpc' = [rpc EXCEPT ![p] = "panicked"]
                /\ UNCHANGED <<att, str>>
           ELSE /\ rpc' = [rpc EXCEPT ![p] = "streaming"]
                /\ att' = [att EXCEPT ![p][l.n].results = @ + 1,
                                      ![p][l.n].success =
                                         (ok /\ str[p].quotaErr = NoErr)]
                /\ str' = [str EXCEPT ![p].closes = @ + 1,
                                      ![p].resultErr =
                                         ResultErr(str[p].streamErr, str[p].quotaErr),
                                      ![p].closeRet = str[p].closeErr]
  /\ UNCHANGED <<storeVars, clientVars, trackerVars, cfg, rl, ret, nreq>>

\* The caller is done with the call (and with its stream, once closed) and is free
\* to make the next one.
RouterReturn(p) ==
  /\ \/ rpc[p] = "done"
     \/ rpc[p] = "streaming" /\ str[p].closed
  /\ nreq < MaxReqs
  /\ rpc' = [rpc EXCEPT ![p] = "idle"]
  /\ rl' = [rl EXCEPT ![p] = [NoLocals EXCEPT !.nkey = rl[p].nkey]]
  /\ att' = [att EXCEPT ![p] = <<>>]
  /\ ret' = [ret EXCEPT ![p] = NoRet]
  /\ str' = [str EXCEPT ![p] = NoStream]
  /\ UNCHANGED <<storeVars, clientVars, trackerVars, cfg, health, nreq>>

Tick ==
  /\ now < MaxNow
  /\ now' = now + 1
  /\ UNCHANGED <<accounts, seen, clientVars, routerVars>>

\* No router call has been made.
InitCalls ==
  /\ rpc = [p \in Procs |-> "idle"]
  /\ rl = [p \in Procs |-> NoLocals]
  /\ att = [p \in Procs |-> <<>>]
  /\ ret = [p \in Procs |-> NoRet]
  /\ str = [p \in Procs |-> NoStream]
  /\ nreq = 0

\* NewHealthTrackerWithConfig(c)
InitTracker(c) ==
  /\ health = <<>>
  /\ hcfg = c
  /\ hop = NoHealthOp

InitProcs ==
  /\ InitCalls
  /\ InitTracker(DefaultHealthConfig)
  /\ spend = NewSpendTracker(0)

\* The store on its own, without a router.
InitNoRouter ==
  /\ cfg = NoConfig
  /\ InitProcs

InitStoreClients ==
  /\ mu = [writer |-> 0, readers |-> {}]
  /\ cpc = [c \in Clients |-> "idle"]
  /\ cop = [c \in Clients |-> NoOp]
  /\ nops = 0
  /\ held = {}
  /\ keyOK = [k \in StoreAccts \X (ClientKeys \ {NoKey}) |-> 0]
  /\ rolled = {}
  /\ co = NoCloser
  /\ tri = NoTri

\* No store call is in progress and no policy has been called directly.
InitClients ==
  /\ InitStoreClients
  /\ sel = NoSelect

\* NewMemoryQuotaStore and SetQuota("a1", n, unit); u of the n have been used by
\* earlier reservations that were committed.
InitStore ==
  /\ now = 0
  /\ seen = {}
  /\ \E n \in 0..MaxLimit : \E u \in 0..n :
       accounts = [a \in {"a1"} |-> [NewRow(n, QuotaTokens, 0) EXCEPT !.Used = u]]
  /\ InitClients
  /\ InitNoRouter

NextStore ==
  \/ \E c \in Clients, a \in StoreAccts, x \in 1..MaxAmt, k \in ClientKeys :
       ClientCallReserve(c, a, x, k)
  \/ \E c \in Clients, r \in held, y \in 0..(MaxAmt + 1) :
       ClientCallConsume(c, "Commit", r, y)
  \/ \E c \in Clients, r \in held : ClientCallConsume(c, "Rollback", r, 0)
  \/ \E c \in Clients, a \in StoreAccts : ClientCallRemaining(c, a)
  \/ \E c \in Clients, n \in 0..MaxLimit : ClientCallSetQuota(c, "a1", n, QuotaTokens)
  \/ \E c \in Clients : ReserveCheck(c)
  \/ \E c \in Clients : ReserveUpdate(c)
  \/ \E c \in Clients : ConsumeBody(c)
  \/ \E c \in Clients : RemainingBody(c)
  \/ \E c \in Clients : SetQuotaBody(c)
  \/ \E c \in Clients : Release(c)
  \/ Tick

SpecStore == InitStore /\ [][NextStore]_vars

\* ---------------------------------------------------------------------
\* NewRouter(cfg, providers, WithQuotaStore(NewMemoryQuotaStore())) and then
\* concurrent ChatCompletion and ChatCompletionStream calls, while time passes.
Init ==
  /\ now = 0
  /\ seen = {}
  /\ cfg \in RouterConfigs
  /\ accounts = InitQuota(<<>>, cfg.Accounts, now)
  /\ InitProcs
  /\ InitClients

RouterStep(p) ==
  \/ BuildRemaining(p)
  \/ BuildHealth(p)
  \/ RouterReserve(p)
  \/ RouterRollback(p)
  \/ RouterRecordFailure(p)
  \/ RouterCommit(p)
  \/ RouterRecordSuccess(p)
  \/ StreamCloseQuota(p)
  \/ StreamCloseFinish(p)
  \/ RouterReturn(p)

Next ==
  \/ \E p \in Procs, k \in Kinds, lens \in MessageLens : RouterBegin(p, k, lens)
  \/ \E p \in Procs : RouterStep(p)
  \/ \E p \in Procs, t \in UsageTotals : ProviderReturns(p, NoErr, t)
  \/ \E p \in Procs, e \in ProviderErrors : ProviderReturns(p, e, 0)
  \/ \E p \in Procs, t \in StreamUsage : StreamNext(p, NoErr, t)
  \/ \E p \in Procs, e \in StreamErrors : StreamNext(p, e, NoUsage)
  \/ \E p \in Procs : StreamClose(p, NoErr)
  \/ Tick

Spec == Init /\ [][Next]_vars

\* ---------------------------------------------------------------------
\* k concurrent Reserve("a1", 1, "") calls on a fresh row, and nothing else:
\* no Commit, no Rollback, and the clock stays inside the row's day.
TickSameDay ==
  /\ now + 1 <= accounts["a1"].ResetAt
  /\ Tick

InitC1 ==
  /\ now = 0
  /\ seen = {}
  /\ \E n \in 0..MaxLimit : accounts = StoreSetQuota(<<>>, "a1", n, QuotaRequests, 0)
  /\ InitClients
  /\ InitNoRouter

NextC1 ==
  \/ \E c \in Clients : ClientCallReserve(c, "a1", 1, NoKey)
  \/ \E c \in Clients : ReserveCheck(c)
  \/ \E c \in Clients : ReserveUpdate(c)
  \/ \E c \in Clients : Release(c)
  \/ TickSameDay

SpecC1 == InitC1 /\ [][NextC1]_vars

\* Reserve calls that have gone through their body (returned, or about to).
CallsDecided == nops - Cardinality({c \in Clients : cpc[c] \in {"body", "update"}})

\* C1: never over-allocate. Of the f Reserve("a1", 1) calls decided so far against
\* a row with daily_limit N, exactly min(N, f) have succeeded: never more than N,
\* and none has failed while capacity was left. The row's reserved is that number.
C1_NeverOverAllocate ==
  LET N == accounts["a1"].DailyLimit
      succ == Cardinality(held)
  IN /\ succ <= N
     /\ succ = Min(N, CallsDecided)
     /\ cpc \in [Clients -> {"idle", "body", "unlock"}] => accounts["a1"].Reserved = succ

\* All k = MaxOps calls are over, the limit was positive and below k: N succeeded
\* and the others failed with QuotaExceeded.
C1_Witness ==
  /\ nops = MaxOps /\ \A c \in Clients : cpc[c] = "idle"
  /\ accounts["a1"].DailyLimit >= 1
  /\ Cardinality(held) = accounts["a1"].DailyLimit
  /\ Cardinality(held) < nops

\* C7 as claimed: of the Reserve calls that present one non-empty key against one
\* account, configured or not, at most one succeeds.
C7_AtMostOneSuccess == \A ak \in DOMAIN keyOK : keyOK[ak] <= 1

\* The row as Reserve leaves it before adding the reservation: the row before the
\* call, or the fresh day's row when the call performed the lazy daily reset.
BaseOf(o) ==
  IF o.reset
  THEN [o.pre EXCEPT !.Used = 0, !.Reserved = 0, !.Rem = o.pre.Limit]
  ELSE o.pre

Rollbacks == {c \in Clients : cpc[c] = "unlock" /\ cop[c].op = "Rollback" /\ ~cop[c].dirty}
Commits == {c \in Clients : cpc[c] = "unlock" /\ cop[c].op = "Commit" /\ ~cop[c].dirty}

\* C8 as claimed: Reserve then Rollback, with no other activity on the account,
\* leaves Remaining, used and reserved as they were before the Reserve.
C8_AsClaimed == \A c \in Rollbacks : cop[c].post = cop[c].pre

\* C8, amended: the same, unless the Reserve performed the lazy daily reset; then
\* used = reserved = 0 and Remaining = daily_limit after the Rollback.
C8_RollbackIdentity == \A c \in Rollbacks : cop[c].post = BaseOf(cop[c])

C8_Witness ==
  \E c \in Rollbacks :
    /\ cop[c].pre.exists /\ ~cop[c].reset
    /\ cop[c].pre.Used > 0 /\ cop[c].amount > 0

\* C9 as claimed: Reserve(x) then Commit(y), with no other activity on the account,
\* lowers Remaining by exactly y for a configured account.
C9_AsClaimed ==
  \A c \in Commits :
    cop[c].post.Rem = IF cop[c].pre.exists THEN cop[c].pre.Rem - cop[c].actual
                      ELSE cop[c].pre.Rem

\* C9, amended: Remaining afterwards is max(0, R - y), R being Remaining before the
\* Reserve, or daily_limit when the Reserve performed the lazy daily reset; it is
\* unchanged (0) for an unconfigured account.
C9_CommitAccounting ==
  \A c \in Commits :
    cop[c].post.Rem = IF cop[c].pre.exists
                      THEN Max(0, BaseOf(cop[c]).Rem - cop[c].actual)
                      ELSE cop[c].pre.Rem

C9_Witness ==
  \E c \in Commits :
    /\ cop[c].pre.exists /\ ~cop[c].reset
    /\ cop[c].actual > cop[c].amount
    /\ cop[c].post.Rem = cop[c].pre.Rem - cop[c].actual

\* ---------------------------------------------------------------------
\* k concurrent ChatCompletion calls against one requests-unit account with
\* daily_limit N and a provider that always succeeds, within one UTC day.
InitC6 ==
  /\ now = 0
  /\ seen = {}
  /\ \E n \in 0..MaxLimit, paid \in BOOLEAN :
       cfg = [AllowPaid |-> paid,
              Accounts |-> <<AccountConfig("a1", n, QuotaRequests, FALSE, 0, <<"m">>)>>]
  /\ accounts = InitQuota(<<>>, cfg.Accounts, now)
  /\ InitProcs
  /\ InitClients

NextC6 ==
  \/ \E p \in Procs, lens \in MessageLens : RouterBegin(p, "sync", lens)
  \/ \E p \in Procs : BuildRemaining(p)
  \/ \E p \in Procs : BuildHealth(p)
  \/ \E p \in Procs : RouterReserve(p)
  \/ \E p \in Procs, t \in UsageTotals : ProviderReturns(p, NoErr, t)
  \/ \E p \in Procs : RouterCommit(p)
  \/ \E p \in Procs : RouterRecordSuccess(p)
  \/ TickSameDay

SpecC6 == InitC6 /\ [][NextC6]_vars

\* ---------------------------------------------------------------------
Sync == {p \in Procs : rpc[p] # "idle" /\ rl[p].kind = "sync"}
Returned == {p \in Procs : rpc[p] \in {"done", "streaming", "closeQuota", "closeHealth", "panicked"}}
Consumed(a) == a.commits + a.rollbacks
\* The error an attempt failed with: Reserve's, or else the provider's.
FailedWith(a) == IF a.rerr # NoErr THEN a.rerr ELSE a.perr

\* C2: in ChatCompletion every reservation is consumed exactly once before the call
\* returns, by Rollback when the provider call failed and by Commit when it
\* succeeded, and the provider is never invoked for a candidate whose Reserve failed.
C2_ConsumedExactlyOnce ==
  \A p \in Sync :
    /\ rpc[p] = "call" => att[p][rl[p].n].resv
    /\ \A n \in DOMAIN att[p] :
         LET a == att[p][n]
         IN /\ a.called => a.resv
            /\ Consumed(a) <= 1
            /\ a.commits = 1 => a.called /\ a.perr = NoErr
            /\ a.rollbacks = 1 => a.called /\ a.perr # NoErr
            /\ rpc[p] = "done" /\ a.resv => a.called /\ Consumed(a) = 1

\* A call that returned after a failed first attempt (rolled back) and a
\* successful second one (committed).
C2_Witness ==
  \E p \in Sync :
    /\ rpc[p] = "done" /\ Len(att[p]) = 2
    /\ att[p][1].resv /\ att[p][1].rollbacks = 1 /\ att[p][1].commits = 0
    /\ att[p][2].resv /\ att[p][2].commits = 1 /\ att[p][2].rollbacks = 0

\* The processes that hold a RouterStream, and the attempt whose reservation the
\* stream took over.
Streaming == {p \in Procs : rpc[p] \in {"streaming", "closeQuota", "closeHealth", "panicked"}}
StreamAttempt(p) == att[p][rl[p].n]
FirstCloseDone(p) == str[p].closed /\ rpc[p] \in {"streaming", "closeHealth", "panicked"}

\* C3, the part about the calls made: no Commit and no Rollback before the first
\* Close, exactly one of them made by the first Close (Commit exactly when Next saw
\* no error but end-of-stream), and none by a later Close.
C3_ConsumedAtFirstClose ==
  \A p \in Streaming :
    LET a == StreamAttempt(p)
    IN /\ ~FirstCloseDone(p) => Consumed(a) = 0
       /\ FirstCloseDone(p) =>
            /\ Consumed(a) = 1
            /\ a.commits = 1 <=> str[p].streamErr \in {NoErr, EOF}

\* C3 as claimed: the above, and until the first Close the reservation stays
\* counted in the reserved amount of its account's row.
C3_AsClaimed ==
  /\ C3_ConsumedAtFirstClose
  /\ \A p \in Streaming :
       LET a == StreamAttempt(p)
       IN ~str[p].closed /\ a.acct \in DOMAIN accounts =>
            accounts[a.acct].Reserved >= a.amount

\* A stream was closed twice after an error-free read: one Commit.
C3_Witness ==
  \E p \in Streaming :
    /\ str[p].closes = 2 /\ str[p].nexts = 1
    /\ StreamAttempt(p).commits = 1 /\ StreamAttempt(p).rollbacks = 0

\* C4: a fatal provider error (AuthFailed, InvalidRequest) ends the call at once:
\* no later candidate is reserved or invoked, the failed attempt's reservation is
\* rolled back first, and the caller gets a RouterError wrapping that error whose
\* Attempts is the number of the attempt that failed.
C4_FatalStopsAtOnce ==
  \A p \in Procs : \A n \in DOMAIN att[p] :
    att[p][n].perr \in {ErrAuthFailed, ErrInvalidRequest} =>
      /\ n = Len(att[p]) /\ rl[p].n = n
      /\ rpc[p] \in {"rollback", "recordFailure", "done"}
      /\ rpc[p] = "done" =>
           /\ ret[p].state = "err" /\ ret[p].err = att[p][n].perr
           /\ ret[p].attempts = n /\ ret[p].acct = att[p][n].acct
           /\ att[p][n].rollbacks = 1

\* The first of two candidates failed fatally and the call returned: the second
\* candidate was never tried.
C4_Witness ==
  \E p \in Procs :
    /\ rpc[p] = "done" /\ Len(rl[p].cands) = 2 /\ Len(att[p]) = 1
    /\ ret[p].err = ErrInvalidRequest /\ ret[p].attempts = 1

\* C5: a retryable error from candidate i is followed by an attempt on candidate
\* i+1; when all N candidates fail the caller gets AllFailed with Attempts = N; when
\* a later candidate succeeds the response is that candidate's.
C5_RetryThenFallback ==
  \A p \in Procs :
    LET N == Len(rl[p].cands)
    IN /\ \A n \in DOMAIN att[p] :
            IsRetryable(FailedWith(att[p][n])) /\ n < N =>
              \/ rl[p].n = n /\ rpc[p] \in {"rollback", "recordFailure"}
              \/ rl[p].n = n + 1 /\ rpc[p] = "reserve"
              \/ Len(att[p]) > n
       /\ p \in Returned /\ ret[p].err = ErrAllFailed =>
            ret[p].attempts = N /\ Len(att[p]) = N
       /\ /\ p \in Returned /\ Len(att[p]) = N /\ N > 0
          /\ \A n \in DOMAIN att[p] : IsRetryable(FailedWith(att[p][n]))
          => ret[p].err = ErrAllFailed /\ ret[p].attempts = N
       /\ p \in Returned /\ ret[p].state = "ok" =>
            LET n == Len(att[p])
            IN /\ ret[p].attempts = n /\ ret[p].acct = rl[p].cands[n].AccountID
               /\ att[p][n].called /\ att[p][n].perr = NoErr
               /\ \A k \in 1..(n - 1) : ~att[p][k].resv \/ att[p][k].perr # NoErr

\* Both candidates failed with a retryable error: AllFailed, Attempts = 2.
C5_Witness ==
  \E p \in Procs :
    /\ rpc[p] = "done" /\ Len(rl[p].cands) = 2
    /\ att[p][1].perr = ErrRateLimited /\ att[p][2].perr = ErrRateLimited
    /\ ret[p].err = ErrAllFailed /\ ret[p].attempts = 2

\* C6: of k concurrent ChatCompletion calls against one requests-unit account
\* with daily_limit N, exactly min(N, k) succeed, and afterwards Remaining is N
\* minus the number of successes.
C6_ExactlyMinSucceed ==
  LET N == cfg.Accounts[1].DailyFree
      ok == {p \in Procs : rpc[p] = "done" /\ ret[p].state = "ok"}
  IN /\ Cardinality(ok) <= N
     /\ (\A p \in Procs : rpc[p] = "done") =>
          /\ Cardinality(ok) = Min(N, MaxProcs)
          /\ StoreRemaining(accounts, "a1") = N - Cardinality(ok)

\* All calls are over, the limit was positive and smaller than their number: some
\* succeeded and some were refused.
C6_Witness ==
  /\ \A p \in Procs : rpc[p] = "done"
  /\ cfg.Accounts[1].DailyFree >= 1
  /\ \E p \in Procs : ret[p].state = "ok"
  /\ \E p \in Procs : ret[p].state = "err"

\* C10 as claimed: in every reachable state every quota row has used >= 0 and
\* reserved >= 0.
C10_RowsNonNegative ==
  \A a \in DOMAIN accounts : accounts[a].Used >= 0 /\ accounts[a].Reserved >= 0

\* ---------------------------------------------------------------------
\* A HealthTracker on its own: a client calls GetHealth, RecordSuccess and
\* RecordFailure, each under the tracker's mutex, while time passes.
HealthAccts == {"a1", "a2"}

HealthConfigs ==
  {HealthConfig(th, w, p) : th \in 1..MaxThreshold, w \in 1..MaxWindow, p \in 1..MaxPeriod}

CallGetHealth(a) ==
  /\ hop' = HealthOp("GetHealth", a, now, health, GetHealth(health, a, now))
  /\ health' = GetHealthMap(health, a, now)
  /\ UNCHANGED <<storeVars, clientVars, cfg, rpc, rl, att, ret, str, nreq, hcfg, spend>>

CallRecordSuccess(a) ==
  /\ hop' = HealthOp("RecordSuccess", a, now, health, HealthHealthy)
  /\ health' = RecordSuccess(health, a)
  /\ UNCHANGED <<storeVars, clientVars, cfg, rpc, rl, att, ret, str, nreq, hcfg, spend>>

CallRecordFailure(a) ==
  /\ hop' = HealthOp("RecordFailure", a, now, health, HealthHealthy)
  /\ health' = RecordFailure(health, a, now)
  /\ UNCHANGED <<storeVars, clientVars, cfg, rpc, rl, att, ret, str, nreq, hcfg, spend>>

TickHealth ==
  /\ now < MaxHealthNow
  /\ now' = now + 1
  /\ UNCHANGED <<accounts, seen, clientVars, routerVars>>

InitHealth ==
  /\ now = 0
  /\ seen = {}
  /\ accounts = <<>>
  /\ cfg = NoConfig
  /\ InitClients
  /\ InitCalls
  /\ \E c \in HealthConfigs : InitTracker(c)
  /\ spend = NewSpendTracker(0)

NextHealth ==
  \/ \E a \in HealthAccts : CallGetHealth(a)
  \/ \E a \in HealthAccts : CallRecordSuccess(a)
  \/ \E a \in HealthAccts : CallRecordFailure(a)
  \/ TickHealth

SpecHealth == InitHealth /\ [][NextHealth]_vars

\* The entry of the account of the last call, after the call.
After == getOrCreate(health, hop.acct)[hop.acct]
\* The failures recorded before time t that lie inside the sliding window at t.
InWindow(fs, t) == SelectSeq(fs, LAMBDA f : f > t - hcfg.FailureWindow)

\* C12: a Healthy account becomes Unhealthy exactly when a RecordFailure brings
\* the number of failures inside the sliding failure window to the failure
\* threshold; with fewer failures in the window (failures older than the window do
\* not count) it stays Healthy and GetHealth returns Healthy.
C12_TripsAtThreshold ==
  hop.op # "none" /\ hop.before.state = HealthHealthy =>
    LET n == Len(InWindow(hop.before.failures, hop.at)) + 1
        trips == hop.op = "RecordFailure" /\ n >= hcfg.FailureThreshold
    IN /\ After.state = IF trips THEN HealthUnhealthy ELSE HealthHealthy
       /\ trips => After.unhealthyAt = hop.at
       /\ hop.op = "GetHealth" => hop.got = HealthHealthy

\* The third failure inside the window trips an account whose threshold is 3, the
\* failures having been recorded at different times.
C12_Witness ==
  /\ hop.op = "RecordFailure" /\ hop.before.state = HealthHealthy
  /\ hcfg.FailureThreshold = 3 /\ Len(hop.before.failures) = 2
  /\ hop.before.failures[1] < hop.at
  /\ After.state = HealthUnhealthy

\* C13: RecordSuccess makes the account Healthy from any state and clears its
\* failure window; each RecordFailure adds one failure to the window and an account
\* is Unhealthy only with failure_threshold failures in it, so after a success it
\* takes failure_threshold new failures to become Unhealthy again.
C13_SuccessResets ==
  /\ hop.op = "RecordSuccess" =>
        After.state = HealthHealthy /\ After.failures = <<>>
  /\ hop.op = "RecordFailure" =>
        Len(After.failures) <= Len(hop.before.failures) + 1
  /\ \A a \in DOMAIN health :
        health[a].state = HealthUnhealthy =>
          Len(health[a].failures) >= hcfg.FailureThreshold

\* A success recorded for an Unhealthy account with a full failure window.
C13_Witness ==
  /\ hop.op = "RecordSuccess" /\ hop.before.state = HealthUnhealthy
  /\ Len(hop.before.failures) >= 2
  /\ After.state = HealthHealthy

\* C14: GetHealth returns Unhealthy for an Unhealthy account before the cooldown
\* has elapsed and moves it to HalfOpen on the first call at or after
\* unhealthy_since + unhealthy_period; no step but such a GetHealth call (no other
\* call, and not the passing of time) takes an account from Unhealthy to HalfOpen.
C14_HalfOpenOnlyInGetHealth ==
  /\ [](hop.op = "GetHealth" /\ hop.before.state = HealthUnhealthy =>
          /\ hop.got = IF hop.at - hop.before.unhealthyAt >= hcfg.UnhealthyPeriod
                       THEN HealthHalfOpen ELSE HealthUnhealthy
          /\ After.state = hop.got)
  /\ [][\A a \in DOMAIN health :
          health[a].state = HealthUnhealthy /\ health'[a].state = HealthHalfOpen =>
            /\ now' = now
            /\ hop'.op = "GetHealth" /\ hop'.acct = a /\ hop'.at = now
            /\ now - health[a].unhealthyAt >= hcfg.UnhealthyPeriod
      ]_vars

\* GetHealth found the account Unhealthy exactly when its cooldown ended: HalfOpen.
C14_Witness ==
  /\ hop.op = "GetHealth" /\ hop.before.state = HealthUnhealthy
  /\ hop.at - hop.before.unhealthyAt = hcfg.UnhealthyPeriod
  /\ hop.got = HealthHalfOpen

\* C15: while an account is Unhealthy, RecordFailure leaves its state, its
\* unhealthy_since and its failure window unchanged, so the cooldown still ends at
\* unhealthy_since + unhealthy_period.
C15_FailureIgnoredWhileUnhealthy ==
  hop.op = "RecordFailure" /\ hop.before.state = HealthUnhealthy =>
    After = hop.before

\* A failure recorded for an Unhealthy account later than the one that tripped it.
C15_Witness ==
  /\ hop.op = "RecordFailure" /\ hop.before.state = HealthUnhealthy
  /\ hop.at > hop.before.unhealthyAt
  /\ After.unhealthyAt = hop.before.unhealthyAt

\* C17 as claimed: in HalfOpen a RecordSuccess makes the account Healthy and a
\* RecordFailure returns it to Unhealthy with a new cooldown, whatever failures are
\* still inside the failure window.
C17_AsClaimed ==
  hop.before.state = HealthHalfOpen =>
    /\ hop.op = "RecordSuccess" => After.state = HealthHealthy
    /\ hop.op = "RecordFailure" =>
          After.state = HealthUnhealthy /\ After.unhealthyAt = hop.at

\* ---------------------------------------------------------------------
\* A Router some of whose accounts have had failure_threshold failed requests, at
\* time 0 or just now, and concurrent ChatCompletion calls on it.
BreakerConfigs == {HealthConfig(2, 1, 1), HealthConfig(2, 2, 1)}
NotTripped == -1

\* k RecordFailure calls for account a at time t.
RECURSIVE FailTimes(_, _, _, _)
FailTimes(hm, a, t, k) ==
  IF k = 0 THEN hm ELSE FailTimes(RecordFailure(hm, a, t), a, t, k - 1)

TripAt(hm, a, t) ==
  IF t = NotTripped THEN hm ELSE FailTimes(hm, a, t, hcfg.FailureThreshold)

InitBreaker ==
  /\ now = 1
  /\ seen = {}
  /\ cfg \in RouterConfigs
  /\ accounts = InitQuota(<<>>, cfg.Accounts, 0)
  /\ InitClients
  /\ InitCalls
  /\ hcfg \in BreakerConfigs
  /\ hop = NoHealthOp
  /\ spend = NewSpendTracker(0)
  /\ \E t1, t2 \in {NotTripped, 0, 1} :
       health = TripAt(TripAt(<<>>, cfg.Accounts[1].ID, t1), cfg.Accounts[2].ID, t2)

NextBreaker ==
  \/ \E p \in Procs, lens \in MessageLens : RouterBegin(p, "sync", lens)
  \/ \E p \in Procs : BuildRemaining(p)
  \/ \E p \in Procs : BuildHealth(p)
  \/ \E p \in Procs : RouterReserve(p)
  \/ \E p \in Procs, t \in UsageTotals : ProviderReturns(p, NoErr, t)
  \/ \E p \in Procs, e \in ProviderErrors : ProviderReturns(p, e, 0)
  \/ \E p \in Procs : RouterRollback(p)
  \/ \E p \in Procs : RouterRecordFailure(p)
  \/ \E p \in Procs : RouterCommit(p)
  \/ \E p \in Procs : RouterRecordSuccess(p)
  \/ \E p \in Procs : RouterReturn(p)
  \/ Tick

SpecBreaker == InitBreaker /\ [][NextBreaker]_vars

\* The calls whose candidates have been built and filtered.
Looping == {p \in Procs : rpc[p] \notin {"idle", "remaining", "health"}}
\* The requests in flight at account a's provider, sent as probes: the account
\* was HalfOpen when their candidates were built.
Probes(a) ==
  {p \in Procs : /\ rpc[p] = "call"
                 /\ rl[p].cands[rl[p].n].AccountID = a
                 /\ rl[p].cands[rl[p].n].Health = HealthHalfOpen}
AccountIDs == {cfg.Accounts[i].ID : i \in DOMAIN cfg.Accounts}
SeqToSet(q) == {q[i] : i \in DOMAIN q}

\* C16 as claimed: HalfOpen admits one probe: until the outcome of a request to a
\* HalfOpen account has been recorded, at most one request of all the concurrent
\* calls is at that account's provider.
C16_AsClaimed == \A a \in AccountIDs : Cardinality(Probes(a)) <= 1

\* C18: no attempt (Reserve or provider call) is made against an account that was
\* Unhealthy when the call's candidates were built; the attempt loop runs over the
\* built candidates that were not Unhealthy (HalfOpen ones included) and pass the
\* allow_paid filter; if every built candidate was Unhealthy the call returns
\* NoCandidates.
C18_UnhealthySkipped ==
  \A p \in Looping :
    LET built == SeqToSet(rl[p].built)
        sick == {c \in built : c.Health = HealthUnhealthy}
    IN /\ \A n \in DOMAIN att[p] : \A c \in sick : att[p][n].acct # c.AccountID
       /\ rl[p].cands # <<>> =>
            SeqToSet(rl[p].cands) = {c \in built \ sick : c.Free \/ cfg.AllowPaid}
       /\ built # {} /\ built = sick =>
            /\ rpc[p] = "done" /\ ret[p].err = ErrNoCandidates
            /\ att[p] = <<>>

\* A call that found one account Unhealthy and the other HalfOpen, and tried the
\* HalfOpen one only.
C18_Witness ==
  \E p \in Looping :
    /\ \E c \in SeqToSet(rl[p].built) : c.Health = HealthUnhealthy
    /\ \E c \in SeqToSet(rl[p].cands) : c.Health = HealthHalfOpen
    /\ rpc[p] = "done" /\ Len(att[p]) = 1 /\ att[p][1].called

\* ---------------------------------------------------------------------
\* Routers with and without allow_paid, over a free account with a daily
\* allowance of 0 or 1 request, alone or followed by a paid account.
FreeAccount(n) == AccountConfig("a2", n, QuotaRequests, FALSE, 0, <<"m">>)
PaidAccount == AccountConfig("p1", 0, QuotaTokens, TRUE, 1, <<"m">>)

PaidConfigs ==
  {[AllowPaid |-> ap, Accounts |-> accs] :
     ap \in BOOLEAN,
     accs \in {<<FreeAccount(n)>> : n \in 0..1} \cup
              {<<FreeAccount(n), PaidAccount>> : n \in 0..1}}

InitPaid ==
  /\ now = 0
  /\ seen = {}
  /\ cfg \in PaidConfigs
  /\ accounts = InitQuota(<<>>, cfg.Accounts, now)
  /\ InitProcs
  /\ InitClients

SpecPaid == InitPaid /\ [][NextBreaker]_vars

AccountOf(id) == cfg.Accounts[CHOOSE i \in DOMAIN cfg.Accounts : cfg.Accounts[i].ID = id]

\* C19: a candidate is free when its account has daily_free > 0 and quota
\* remaining. With allow_paid = false the attempt loop holds free candidates only,
\* so no non-free candidate is reserved or invoked, and a call all of whose
\* candidates are non-free returns NoCandidates. With allow_paid = true a call
\* that finds no free candidate, and whose Reserve on every account without paid
\* mode is refused, is served by a paid account and reported with free = false.
C19_AllowPaid ==
  \A p \in Looping :
    LET built == SeqToSet(rl[p].built)
        nonfree == {c \in built : ~c.Free}
    IN /\ \A c \in built :
            c.Free <=> AccountOf(c.AccountID).DailyFree > 0 /\ c.Remaining > 0
       /\ ~cfg.AllowPaid =>
            /\ \A n \in DOMAIN rl[p].cands : rl[p].cands[n].Free
            /\ \A n \in DOMAIN att[p] :
                 \E c \in built \ nonfree : c.AccountID = att[p][n].acct
            /\ built # {} /\ built = nonfree =>
                 /\ rpc[p] = "done" /\ ret[p].err = ErrNoCandidates
                 /\ att[p] = <<>>
       /\ /\ cfg.AllowPaid /\ built = nonfree
          /\ rpc[p] = "done" /\ ret[p].state = "ok"
          /\ \A n \in DOMAIN att[p] :
               ~AccountOf(att[p][n].acct).PaidEnabled => att[p][n].rerr = ErrQuotaExceeded
          => /\ AccountOf(ret[p].acct).PaidEnabled
             /\ ~ret[p].free
             /\ att[p][Len(att[p])].commits = 1

\* allow_paid = true, the free account is exhausted and refuses the Reserve, and
\* the paid account serves the request.
C19_Witness ==
  \E p \in Looping :
    /\ cfg.AllowPaid /\ rpc[p] = "done" /\ ret[p].state = "ok"
    /\ Len(att[p]) = 2 /\ att[p][1].rerr = ErrQuotaExceeded
    /\ AccountOf(att[p][1].acct).DailyFree = 1
    /\ ret[p].acct = "p1" /\ ~ret[p].free

\* ---------------------------------------------------------------------
\* A Router whose only account is a paid one with a max_daily_spend (0: none), and
\* a SpendTracker on which spend is recorded for that account between the calls.
SpendConfigs ==
  {[AllowPaid |-> TRUE, Accounts |-> <<[PaidAccount EXCEPT !.MaxDailySpend = m]>>] :
     m \in 0..MaxCeiling}

CallRecordSpend(a, dollars) ==
  /\ \A p \in Procs : rpc[p] = "idle"
  /\ GetSpend(spend, a, now) + dollars <= MaxSpend
  /\ spend' = RecordSpend(spend, a, dollars, now)
  /\ UNCHANGED <<storeVars, clientVars, cfg, health, rpc, rl, att, ret, str, nreq,
                 hcfg, hop>>

InitSpend ==
  /\ now = 0
  /\ seen = {}
  /\ cfg \in SpendConfigs
  /\ accounts = InitQuota(<<>>, cfg.Accounts, now)
  /\ InitProcs
  /\ InitClients

NextSpend ==
  \/ NextBreaker
  \/ \E d \in 1..MaxSpend : CallRecordSpend("p1", d)

SpecSpend == InitSpend /\ [][NextSpend]_vars

\* C20 as claimed: once the spend recorded for a paid account on the current UTC
\* day is at or above its max_daily_spend > 0, later calls drop its paid candidates
\* at the filter stage, and a router with no other account returns NoCandidates; an
\* account with max_daily_spend = 0 is never dropped for spend.
C20_AsClaimed ==
  \A p \in Looping : \A i \in DOMAIN cfg.Accounts :
    LET acc == cfg.Accounts[i]
        mine(q) == {c \in SeqToSet(q) : c.AccountID = acc.ID}
        over == /\ acc.MaxDailySpend > 0
                /\ spend.resetDay = YearDay(now)
                /\ GetSpend(spend, acc.ID, now) >= acc.MaxDailySpend
    IN /\ over =>
            /\ \A c \in mine(rl[p].cands) : c.Free
            /\ Len(cfg.Accounts) = 1 =>
                 rpc[p] = "done" /\ ret[p].err = ErrNoCandidates
       /\ acc.MaxDailySpend = 0 =>
            \A c \in mine(rl[p].built) :
              c.Health # HealthUnhealthy /\ (c.Free \/ cfg.AllowPaid) =>
                c \in mine(rl[p].cands)

\* ---------------------------------------------------------------------
\* A store call of client c runs its body in this step.
BodyStep(c, op) == cpc[c] = "body" /\ cop[c].op = op /\ cpc'[c] # "body"

\* C11 as claimed: once the clock has passed a row's reset_at_utc, the first access
\* to it observes used = 0 and reserved = 0: a Remaining call returns daily_limit, a
\* Reserve of up to daily_limit succeeds, and the Reserve leaves used = 0 and
\* reset_at_utc at the next UTC midnight.
C11_AsClaimed ==
  [][\A c \in Clients :
       LET a == cop[c].acct
       IN a \in DOMAIN accounts /\ now > accounts[a].ResetAt =>
            /\ BodyStep(c, "Remaining") => cop'[c].ret = accounts[a].DailyLimit
            /\ BodyStep(c, "Reserve") /\ ~IsDuplicate(seen, cop[c].key) =>
                 /\ accounts'[a].Used = 0 /\ accounts'[a].Reserved = 0
                 /\ accounts'[a].ResetAt = nextMidnightUTC(now)
                 /\ cop[c].amount <= accounts[a].DailyLimit => cop'[c].err = NoErr
    ]_vars

\* C11, the part about Reserve alone.
C11_ReserveResets ==
  [][\A c \in Clients :
       LET a == cop[c].acct
       IN /\ a \in DOMAIN accounts /\ now > accounts[a].ResetAt
          /\ BodyStep(c, "Reserve") /\ ~IsDuplicate(seen, cop[c].key)
          => /\ accounts'[a].Used = 0 /\ accounts'[a].Reserved = 0
             /\ accounts'[a].ResetAt = nextMidnightUTC(now)
             /\ cop[c].amount <= accounts[a].DailyLimit => cop'[c].err = NoErr
    ]_vars

\* ---------------------------------------------------------------------
\* One caller that opens streams with ChatCompletionStream, reads them with
\* Next, may cancel its request context while the stream is open, and closes
\* them, over a quota store whose Commit and Rollback can fail.
MaxStreamNext == 3
StreamProcs == {1}
StreamChunks == {NoUsage, 7, 11}
CloseErrors == {NoErr, ErrOther}
StoreFaults == {NoErr, ErrCommitFailed}

\* The caller cancels the context it passed to ChatCompletionStream.
CancelRequest(p) ==
  /\ rpc[p] = "streaming" /\ ~rl[p].ctxDone
  /\ rl' = [rl EXCEPT ![p].ctxDone = TRUE]
  /\ UNCHANGED <<storeVars, clientVars, trackerVars, cfg, health, rpc, att, ret, str, nreq>>

NextStream ==
  \/ \E p \in StreamProcs, lens \in MessageLens : RouterBegin(p, "stream", lens)
  \/ \E p \in StreamProcs : BuildRemaining(p)
  \/ \E p \in StreamProcs : BuildHealth(p)
  \/ \E p \in StreamProcs : RouterReserve(p)
  \/ \E p \in StreamProcs : ProviderReturns(p, NoErr, 0)
  \/ \E p \in StreamProcs, e \in ProviderErrors : ProviderReturns(p, e, 0)
  \/ \E p \in StreamProcs : RouterRollback(p)
  \/ \E p \in StreamProcs : RouterRecordFailure(p)
  \/ \E p \in StreamProcs, t \in StreamChunks : StreamNextUpTo(p, NoErr, t, MaxStreamNext)
  \/ \E p \in StreamProcs, e \in StreamErrors : StreamNextUpTo(p, e, NoUsage, MaxStreamNext)
  \/ \E p \in StreamProcs : CancelRequest(p)
  \/ \E p \in StreamProcs, e \in CloseErrors : StreamClose(p, e)
  \/ \E p \in StreamProcs, f \in StoreFaults : StreamCloseQuotaWith(p, f)
  \/ \E p \in StreamProcs : StreamCloseFinish(p)
  \/ \E p \in StreamProcs : RouterReturn(p)
  \/ Tick

SpecStream == Init /\ [][NextStream]_vars

\* The step in which a Close call on an already closed stream returns.
LaterClose(p) ==
  /\ rpc[p] = "streaming" /\ str[p].closed
  /\ str'[p].closes = str[p].closes + 1

\* C21: a Close on a stream that is already closed returns nil and does nothing:
\* no Commit and no Rollback (the rows and the attempt's counts stay), no health
\* update, no spend update and no OnResult event; so however often a stream is
\* closed, its reservation sees one quota call and its attempt one OnResult.
C21_CloseIdempotent ==
  /\ [](\A p \in StreamProcs :
          rpc[p] = "streaming" =>
            /\ att[p][rl[p].n].commits + att[p][rl[p].n].rollbacks <= 1
            /\ att[p][rl[p].n].results <= 1)
  /\ [][\A p \in StreamProcs :
          LaterClose(p) =>
            /\ str'[p].closeRet = NoErr
            /\ accounts' = accounts /\ seen' = seen
            /\ health' = health
            /\ spend' = spend
            /\ att' = att]_vars

\* A second Close has returned on a stream whose first Close returned an error
\* and committed the reservation.
C21_Witness ==
  \E p \in StreamProcs :
    /\ str[p].closes = 2 /\ str[p].closeErr = ErrOther /\ str[p].closeRet = NoErr
    /\ att[p][rl[p].n].commits = 1 /\ att[p][rl[p].n].results = 1

\* The two steps of a first Close that call the quota store and the tracker.
QuotaStep(p) == rpc[p] = "closeQuota" /\ rpc'[p] = "closeHealth"
HealthStep(p) == rpc[p] = "closeHealth" /\ rpc'[p] # "closeHealth"

\* What a first Close does to the store and to the tracker when the stream counts
\* as failed (failed = TRUE) or as succeeded, on a store without a fault of its own.
CloseTiesOff(p, failed) ==
  LET c == rl[p].cands[rl[p].n]
      a == att[p][rl[p].n]
      actual == IF c.QuotaUnit = QuotaRequests THEN 1 ELSE str[p].totalUsage
  IN /\ QuotaStep(p) /\ str'[p].storeFault = NoErr =>
          /\ str'[p].quotaErr = NoErr
          /\ IF failed
             THEN /\ accounts' = StoreRollback(accounts, a.acct, a.amount)
                  /\ att'[p][rl[p].n].rollbacks = 1 /\ att'[p][rl[p].n].commits = 0
             ELSE /\ accounts' = StoreCommit(accounts, a.acct, a.amount, actual)
                  /\ att'[p][rl[p].n].commits = 1 /\ att'[p][rl[p].n].rollbacks = 0
                  /\ att'[p][rl[p].n].actual = actual
     /\ HealthStep(p) =>
          health' = IF failed THEN RecordFailure(health, c.AccountID, now)
                    ELSE RecordSuccess(health, c.AccountID)

\* C22 as claimed: the first Close of a stream on which Next saw no error, or only
\* end-of-stream, commits 1 (requests unit) or the total_tokens of the last usage
\* seen and records a health success; if Next saw any other error it rolls the
\* reservation back and records a health failure; the quota call takes effect
\* also when the request context is cancelled.
C22_AsClaimed ==
  [][\A p \in StreamProcs : CloseTiesOff(p, str[p].sawErr)]_vars

\* C22 with the verdict Close computes: failed when the first error Next returned
\* is not end-of-stream.
C22_ByFirstError ==
  [][\A p \in StreamProcs : CloseTiesOff(p, str[p].streamErr \notin {NoErr, EOF})]_vars

\* A cancelled request whose stream ended with usage 7 after an earlier usage 11
\* has committed 7.
C22_Witness ==
  \E p \in StreamProcs :
    /\ rpc[p] = "closeHealth" /\ rl[p].ctxDone /\ str[p].nexts = 3
    /\ str[p].streamErr = EOF /\ str[p].totalUsage = 7
    /\ att[p][rl[p].n].commits = 1 /\ att[p][rl[p].n].actual = 7
    /\ str[p].quotaErr = NoErr

\* What the first Close reported: one OnResult; for a stream that succeeded but
\* whose Commit failed, success = false and an error that wraps the quota error;
\* and the caller got the inner stream's Close error whatever the store did.
CloseReported(p) ==
  LET a == att[p][rl[p].n]
  IN /\ a.results = 1
     /\ str[p].isSuccess /\ str[p].quotaErr # NoErr =>
          /\ ~a.success
          /\ str[p].resultErr = QuotaOpFailed(str[p].quotaErr)
     /\ str[p].closes = 1 => str[p].closeRet = str[p].closeErr

\* C23 as claimed: once the first Close of a stream is over, exactly one OnResult
\* was emitted for it; if the stream succeeded and the Commit failed, the event
\* has success = false and an error "quota operation failed: ...", and Close
\* returned the inner stream's close error.
C23_AsClaimed ==
  \A p \in StreamProcs :
    str[p].closed /\ rpc[p] \in {"streaming", "panicked"} => CloseReported(p)

\* C23 for the Close calls that return.
C23_WhenCloseReturns ==
  \A p \in StreamProcs : str[p].closed /\ rpc[p] = "streaming" => CloseReported(p)

\* A stream ended normally, its Commit failed, and Close returned the inner
\* stream's error.
C23_Witness ==
  \E p \in StreamProcs :
    /\ str[p].closes = 1 /\ str[p].isSuccess /\ str[p].quotaErr = ErrCommitFailed
    /\ str[p].closeErr = ErrOther /\ str[p].closeRet = ErrOther
    /\ att[p][rl[p].n].results = 1 /\ ~att[p][rl[p].n].success

\* C24 as claimed: for every sequence of Next results, Close treats the stream as
\* failed (Rollback, no Commit) exactly when some Next returned an error other
\* than end-of-stream, wherever in the sequence it came.
C24_AsClaimed ==
  \A p \in StreamProcs :
    /\ str[p].closed => (str[p].isSuccess <=> ~str[p].sawErr)
    /\ str[p].closed /\ rpc[p] \in {"closeHealth", "streaming"} =>
         /\ att[p][rl[p].n].rollbacks = (IF str[p].sawErr THEN 1 ELSE 0)
         /\ att[p][rl[p].n].commits = (IF str[p].sawErr THEN 0 ELSE 1)

\* C24 for the sequences in which no error follows an end-of-stream result: the
\* retained error is then the first error other than end-of-stream, if any.
C24_FirstErrorDecides ==
  \A p \in StreamProcs :
    str[p].closed =>
      /\ str[p].isSuccess <=> str[p].streamErr \in {NoErr, EOF}
      /\ str[p].streamErr # EOF => (str[p].isSuccess <=> ~str[p].sawErr)

\* The i-th attempt of p's call is over: the loop has moved on, the call has
\* returned without a stream, or the stream it opened has been closed.
AttemptOver(p, i) ==
  \/ i < Len(att[p])
  \/ rpc[p] = "done"
  \/ rpc[p] = "streaming" /\ str[p].closed

\* OnRoute is emitted exactly for the attempts whose Reserve succeeded, before
\* the provider is called, and an attempt that is over has one OnResult per
\* OnRoute; a provider error yields OnResult(success = false) after the Rollback.
MeterPaired(p, i) ==
  LET a == att[p][i]
  IN /\ a.routes = (IF a.resv THEN 1 ELSE 0)
     /\ a.called => a.routes = 1
     /\ a.results <= a.routes
     /\ AttemptOver(p, i) =>
          /\ a.results = a.routes
          /\ a.perr # NoErr => a.results = 1 /\ ~a.success /\ a.rollbacks = 1

\* C25 as claimed: meter pairing in ChatCompletion and in ChatCompletionStream,
\* a failed stream open included.
C25_AsClaimed ==
  \A p \in Procs : \A i \in DOMAIN att[p] : MeterPaired(p, i)

\* C25 for ChatCompletion alone.
C25_SyncPaired ==
  \A p \in Procs : \A i \in DOMAIN att[p] : rl[p].kind = "sync" => MeterPaired(p, i)

\* The step in which p's Reserve for its current candidate is refused.
ReserveRefused(p) ==
  /\ rpc[p] = "reserve"
  /\ Len(att'[p]) = Len(att[p]) + 1
  /\ att'[p][Len(att'[p])].rerr # NoErr

\* C26: a Reserve failure leaves the health records as they are, emits neither
\* OnRoute nor OnResult, reaches no provider and no Commit or Rollback, and the
\* loop goes on with the next candidate, if there is one, with lastErr set.
C26_ReserveFailureOnlyMovesOn ==
  /\ [](\A p \in Procs : \A i \in DOMAIN att[p] :
          att[p][i].rerr # NoErr =>
            /\ ~att[p][i].called /\ att[p][i].routes = 0 /\ att[p][i].results = 0
            /\ att[p][i].commits = 0 /\ att[p][i].rollbacks = 0)
  /\ [][\A p \in Procs :
          ReserveRefused(p) =>
            /\ health' = health
            /\ rl'[p].lastErr = att'[p][Len(att'[p])].rerr
            /\ rl'[p].cands = rl[p].cands
            /\ IF rl[p].n < Len(rl[p].cands)
               THEN rpc'[p] = "reserve" /\ rl'[p].n = rl[p].n + 1
               ELSE rpc'[p] = "done" /\ ret'[p].err = ErrAllFailed]_vars

\* The first candidate's Reserve was refused, the second candidate's provider
\* was called, and the first account has no health record.
C26_Witness ==
  \E p \in Procs :
    /\ Len(att[p]) = 2 /\ att[p][1].rerr = ErrQuotaExceeded /\ att[p][2].called
    /\ att[p][1].acct \notin DOMAIN health

\* C27 as claimed: once the reservation made by Reserve(a, x, k), k non-empty,
\* has been rolled back, a Reserve on a that presents k fails with the
\* duplicate-key error.
C27_AsClaimed ==
  [][\A c \in Clients :
       /\ BodyStep(c, "Reserve")
       /\ cop[c].key # NoKey /\ <<cop[c].acct, cop[c].key>> \in rolled
       => cop'[c].err = ErrDuplicate]_vars

\* C27 for the accounts that have a quota row.
C27_ConfiguredKeyStays ==
  [][\A c \in Clients :
       /\ BodyStep(c, "Reserve")
       /\ cop[c].key # NoKey /\ <<cop[c].acct, cop[c].key>> \in rolled
       /\ cop[c].acct \in DOMAIN accounts
       => cop'[c].err = ErrDuplicate /\ accounts' = accounts /\ held' = held]_vars

\* A Reserve on the configured account was refused as a duplicate of the key of
\* a reservation that had been rolled back.
C27_Witness ==
  \E c \in Clients :
    /\ cpc[c] = "unlock" /\ cop[c].op = "Reserve" /\ cop[c].acct = "a1"
    /\ cop[c].err = ErrDuplicate /\ <<"a1", cop[c].key>> \in rolled

\* The step in which client c's Reserve is refused with QuotaExceeded.
ReserveExceeds(c) == BodyStep(c, "Reserve") /\ cop'[c].err = ErrQuotaExceeded

\* After the refusal the key is still unrecorded, and a Reserve with the same key
\* succeeds for every amount that fits.
KeyStillFree(c) ==
  /\ seen' = seen
  /\ cop[c].key \notin seen'
  /\ \A y \in 1..MaxAmt :
       y <= Available(accounts'[cop[c].acct]) =>
         ReserveDecide(accounts', seen', cop[c].acct, y, cop[c].key, now).err = NoErr

C29_AsClaimed ==
  [][\A c \in Clients :
       BodyStep(c, "SetQuota") =>
         LET a == cop[c].acct
         IN /\ a \in DOMAIN accounts'
            /\ accounts'[a].DailyLimit = cop[c].amount
            /\ accounts'[a].Unit = cop[c].unit
            /\ IF a \in DOMAIN accounts
               THEN /\ accounts'[a].Used = accounts[a].Used
                    /\ accounts'[a].Reserved = accounts[a].Reserved
                    /\ accounts'[a].ResetAt = accounts[a].ResetAt
                    /\ StoreRemaining(accounts', a) =
                         Max(0, cop[c].amount - accounts[a].Used - accounts[a].Reserved)
               ELSE accounts'[a].Used = 0 /\ accounts'[a].Reserved = 0]_vars

\* What SetQuota of the memory store does: the row is replaced by a fresh one.
C29_RowReplaced ==
  [][\A c \in Clients :
       BodyStep(c, "SetQuota") =>
         accounts'[cop[c].acct] = NewRow(cop[c].amount, cop[c].unit, now)]_vars

\* ---------------------------------------------------------------------
\* TestFallback_ToNextFreeOnQuotaExceeded: free-1 (daily_free 1) and free-2
\* (daily_free 1000), in that order, both counted in tokens; the router is built
\* with policy.FreeFirstPolicy or without WithPolicy.
AlmostExhausted == 1
Plenty == 1000

FallbackAccounts ==
  <<AccountConfig("free-1", AlmostExhausted, QuotaTokens, FALSE, 0, <<"m">>),
    AccountConfig("free-2", Plenty, QuotaTokens, FALSE, 0, <<"m">>)>>

FallbackConfigs ==
  {[AllowPaid |-> FALSE, Accounts |-> FallbackAccounts, Policy |-> pol] :
     pol \in {PolicyFreeFirst, "default"}}

InitFallback ==
  /\ now = 0
  /\ seen = {}
  /\ cfg \in FallbackConfigs
  /\ accounts = InitQuota(<<>>, cfg.Accounts, now)
  /\ InitProcs
  /\ InitClients

SpecFallback == InitFallback /\ [][NextBreaker]_vars

\* A ChatCompletion of p has returned a response.
Served(p) == rpc[p] = "done" /\ ret[p].state = "ok"

MaxCands == 3
PolicyCostFirst == "policy.CostFirstPolicy"
PolicyDefault == "defaultFreeFirstPolicy"
Policies == {PolicyFreeFirst, PolicyCostFirst, PolicyDefault}

\* A candidate as the policies see it.
PolicyCandidate(free, remaining, cost, costIn, costOut) ==
  [AccountID |-> 0, Free |-> free, Remaining |-> remaining, CostPerToken |-> cost,
   CostPerInputToken |-> costIn, CostPerOutputToken |-> costOut]

\* Free accounts with 1 or 2 left, one of them with a configured cost; paid
\* accounts priced per token or per input and output token.
CandidateKinds ==
  {PolicyCandidate(TRUE, 1, 0, 0, 0), PolicyCandidate(TRUE, 2, 0, 0, 0),
   PolicyCandidate(TRUE, 1, 2, 0, 0), PolicyCandidate(FALSE, 0, 1, 0, 0),
   PolicyCandidate(FALSE, 0, 0, 1, 1), PolicyCandidate(FALSE, 0, 2, 0, 0)}

\* The candidates of a slice are told apart by their account: the i-th is i.
Numbered(sq) == [i \in 1..Len(sq) |-> [sq[i] EXCEPT !.AccountID = i]]

CandidateSlices ==
  UNION {{Numbered(sq) : sq \in [1..n -> CandidateKinds]} : n \in 0..MaxCands}

SelectBy(policy, cands) ==
  IF policy = PolicyFreeFirst THEN FreeFirstPolicySelect(cands)
  ELSE IF policy = PolicyCostFirst THEN CostFirstPolicySelect(cands)
  ELSE defaultFreeFirstPolicy(cands)

\* out := policy.Select(in): the policies copy or rebuild the slice, the
\* caller's slice is as it was.
CallSelect(policy) ==
  /\ sel' = [sel EXCEPT !.policy = policy, !.out = SelectBy(policy, sel.in),
                        !.after = sel.in]
  /\ UNCHANGED <<storeVars, mu, cpc, cop, nops, held, keyOK, rolled, co, tri,
                 cfg, health, rpc, rl, att, ret, str, nreq, hcfg, hop, spend>>

InitPolicy ==
  /\ now = 0
  /\ seen = {}
  /\ accounts = <<>>
  /\ cfg = NoConfig
  /\ InitStoreClients
  /\ InitProcs
  /\ \E sq \in CandidateSlices : sel = [NoSelect EXCEPT !.in = sq, !.after = sq]

NextPolicy == \E policy \in Policies : CallSelect(policy)

SpecPolicy == InitPolicy /\ [][NextPolicy]_vars

\* out is a rearrangement of in.
IsPermutation(out, in) ==
  /\ Len(out) = Len(in)
  /\ {out[i] : i \in 1..Len(out)} = {in[i] : i \in 1..Len(in)}

\* Candidates that rank equal keep their input order.
TiesKeepOrder(out, Less(_, _)) ==
  \A i, j \in 1..Len(out) :
    i < j /\ ~Less(out[i], out[j]) /\ ~Less(out[j], out[i]) =>
      out[i].AccountID < out[j].AccountID

\* C31: FreeFirstPolicy.Select returns a permutation of its input with every free
\* candidate before every paid one, the free ones by descending remaining, the
\* paid ones by ascending blended cost, ties in input order, and leaves the
\* input slice as it was.
C31_FreeFirstOrder ==
  sel.policy = PolicyFreeFirst =>
    /\ IsPermutation(sel.out, sel.in)
    /\ sel.after = sel.in
    /\ \A i, j \in 1..Len(sel.out) :
         i < j =>
           /\ sel.out[j].Free => sel.out[i].Free
           /\ sel.out[i].Free /\ sel.out[j].Free =>
                sel.out[i].Remaining >= sel.out[j].Remaining
           /\ ~sel.out[i].Free /\ ~sel.out[j].Free =>
                BlendedCost(sel.out[i]) <= BlendedCost(sel.out[j])
    /\ TiesKeepOrder(sel.out, FreeFirstLess)

\* Select was given paid and free candidates with ties among them, in an order
\* it had to change.
C31_Witness ==
  /\ sel.policy = PolicyFreeFirst /\ Len(sel.in) = 3 /\ sel.out # sel.in
  /\ ~sel.in[1].Free /\ sel.in[2].Free /\ sel.in[3].Free
  /\ sel.in[2].Remaining = sel.in[3].Remaining
  /\ sel.out[1].AccountID = 2

\* C32 as claimed: CostFirstPolicy.Select orders by ascending blended cost,
\* stably, and no paid candidate precedes a free one, also when the free
\* candidate's account has a positive configured cost.
C32_AsClaimed ==
  sel.policy = PolicyCostFirst =>
    /\ IsPermutation(sel.out, sel.in)
    /\ \A i, j \in 1..Len(sel.out) :
         i < j =>
           /\ BlendedCost(sel.out[i]) <= BlendedCost(sel.out[j])
           /\ sel.out[j].Free => sel.out[i].Free
    /\ TiesKeepOrder(sel.out, CostFirstLess)

\* C32 without the claim about free candidates: ascending blended cost, stably.
C32_CostOrder ==
  sel.policy = PolicyCostFirst =>
    /\ IsPermutation(sel.out, sel.in)
    /\ \A i, j \in 1..Len(sel.out) :
         i < j => BlendedCost(sel.out[i]) <= BlendedCost(sel.out[j])
    /\ TiesKeepOrder(sel.out, CostFirstLess)

\* C33 as claimed: the policy of a Router built without WithPolicy orders every
\* candidate list as policy.FreeFirstPolicy does.
C33_AsClaimed ==
  sel.policy = PolicyDefault => sel.out = FreeFirstPolicySelect(sel.in)

\* What the default policy does: free candidates, then paid ones, each group in
\* its input order.
C33_DefaultKeepsOrder ==
  sel.policy = PolicyDefault =>
    /\ IsPermutation(sel.out, sel.in)
    /\ \A i, j \in 1..Len(sel.out) :
         i < j =>
           /\ sel.out[j].Free => sel.out[i].Free
           /\ sel.out[i].Free = sel.out[j].Free =>
                sel.out[i].AccountID < sel.out[j].AccountID

\* ---------------------------------------------------------------------
\* NewRouter with each of the quota stores, or with none, and then ChatCompletion
\* calls by one caller, who may cancel the context of a call while the provider
\* is working on it. Everything happens within one UTC day.
StoreProcs == {1}
StoreKinds == {StoreMemory, StoreRedis, StorePostgres, StoreNoop}

WithStore(c, kind) == [AllowPaid |-> c.AllowPaid, Accounts |-> c.Accounts, Store |-> kind]

\* A config whose only account is free-only.
CfgOnlyFree ==
  [AllowPaid |-> FALSE,
   Accounts |-> <<AccountConfig("a1", 10, QuotaTokens, FALSE, 0, <<"m">>)>>]

StoreConfigs ==
  {WithStore(c, kind) : c \in RouterConfigs \cup {CfgOnlyFree}, kind \in StoreKinds}

\* NewRouter: the rows SetQuota makes in a fresh store; the no-op store is no
\* QuotaInitializer and has no rows.
NewRouterQuota(c, t) ==
  IF StoreKind(c) = StoreNoop THEN <<>> ELSE InitQuota(<<>>, c.Accounts, t)

\* The caller cancels the context of its ChatCompletion call during the
\* provider call.
CancelCall(p) ==
  /\ rpc[p] = "call" /\ ~rl[p].ctxDone
  /\ rl' = [rl EXCEPT ![p].ctxDone = TRUE]
  /\ UNCHANGED <<storeVars, clientVars, trackerVars, cfg, health, rpc, att, ret, str, nreq>>

\* The provider call returns the error of the cancelled context.
ProviderCancelled(p) ==
  /\ rl[p].ctxDone
  /\ ProviderReturns(p, ErrCanceled, 0)

InitStores ==
  /\ now = 0
  /\ seen = {}
  /\ cfg \in StoreConfigs
  /\ accounts = NewRouterQuota(cfg, now)
  /\ InitProcs
  /\ InitClients

NextStores ==
  \/ \E p \in StoreProcs, lens \in MessageLens : RouterBegin(p, "sync", lens)
  \/ \E p \in StoreProcs : BuildRemaining(p)
  \/ \E p \in StoreProcs : BuildHealth(p)
  \/ \E p \in StoreProcs : RouterReserve(p)
  \/ \E p \in StoreProcs : CancelCall(p)
  \/ \E p \in StoreProcs, t \in UsageTotals : ProviderReturns(p, NoErr, t)
  \/ \E p \in StoreProcs, e \in ProviderErrors : ProviderReturns(p, e, 0)
  \/ \E p \in StoreProcs : ProviderCancelled(p)
  \/ \E p \in StoreProcs : RouterRollback(p)
  \/ \E p \in StoreProcs : RouterRecordFailure(p)
  \/ \E p \in StoreProcs : RouterCommit(p)
  \/ \E p \in StoreProcs : RouterRecordSuccess(p)
  \/ \E p \in StoreProcs : RouterReturn(p)

SpecStores == InitStores /\ [][NextStores]_vars

\* No provider call of the request has failed.
ProvidersSucceed(p) == \A i \in 1..Len(att[p]) : att[p][i].perr = NoErr

\* C34 as claimed: with the default no-op store, a request to a config whose
\* accounts are free-only (daily_free > 0, allow_paid = false) and whose provider
\* succeeds is served by such an account instead of failing with NoCandidates.
C34_AsClaimed ==
  \A p \in StoreProcs :
    (StoreKind(cfg) = StoreNoop /\ ~cfg.AllowPaid /\ rpc[p] = "done"
       /\ ProvidersSucceed(p))
    => /\ ret[p].state = "ok"
       /\ \E i \in 1..Len(cfg.Accounts) :
            cfg.Accounts[i].ID = ret[p].acct /\ cfg.Accounts[i].DailyFree > 0

\* What the no-op store yields: its Remaining is 0, so no candidate is free, and
\* with allow_paid = false the request ends with NoCandidates before any Reserve.
C34_NoopNeverFree ==
  \A p \in StoreProcs :
    StoreKind(cfg) = StoreNoop =>
      /\ \A i \in 1..Len(rl[p].built) : ~rl[p].built[i].Free
      /\ (~cfg.AllowPaid /\ rpc[p] = "done") =>
           ret[p].err = ErrNoCandidates /\ att[p] = <<>>

\* C35 as claimed: once a provider call has returned the error of the cancelled
\* request context, no later candidate gets a Reserve or a provider call, and the
\* request returns the cancellation error.
C35_AsClaimed ==
  \A p \in StoreProcs : \A i \in 1..Len(att[p]) :
    att[p][i].perr = ErrCanceled =>
      /\ i = Len(att[p])
      /\ rpc[p] = "done" => ret[p].err = ErrCanceled

\* What the loop does with the cancellation error: it is not fatal, so after the
\* failure is recorded the next candidate gets its Reserve, and when there is
\* none the request returns AllFailed.
C35_CancelMovesOn ==
  \A p \in StoreProcs : \A i \in 1..Len(att[p]) :
    (att[p][i].perr = ErrCanceled /\ att[p][i].results = 1) =>
      \/ i < Len(att[p])
      \/ i < Len(rl[p].cands) /\ rpc[p] = "reserve" /\ rl[p].n = i + 1
      \/ /\ i = Len(rl[p].cands) /\ rpc[p] = "done"
         /\ ret[p].err = ErrAllFailed /\ ret[p].attempts = Len(rl[p].cands)

\* The attempt loop of the request has ended without a success and without a
\* fatal error.
LoopExhausted(p) ==
  /\ rpc[p] = "done" /\ ret[p].state = "err"
  /\ rl[p].cands # <<>>
  /\ \A i \in 1..Len(att[p]) : ~att[p][i].success /\ ~IsFatal(att[p][i].perr)

\* C36: a request whose filtered candidate list is not empty and in which no
\* candidate succeeds and none fails fatally returns AllFailed with Attempts = the
\* length of the ordered list, also when every candidate failed at Reserve;
\* NoCandidates is returned only when the filtered list is empty.
C36_AllFailedAtLoopEnd ==
  \A p \in Procs :
    /\ LoopExhausted(p) =>
         /\ ret[p].err = ErrAllFailed
         /\ ret[p].attempts = Len(rl[p].cands)
         /\ Len(att[p]) = Len(rl[p].cands)
    /\ (rpc[p] = "done" /\ ret[p].err = ErrNoCandidates) =>
         /\ filterCandidates(rl[p].built, cfg.AllowPaid) = <<>>
         /\ att[p] = <<>>

\* Two candidates were tried and both failed at Reserve.
C36_Witness ==
  \E p \in Procs :
    /\ LoopExhausted(p) /\ Len(att[p]) = 2
    /\ \A i \in 1..Len(att[p]) : att[p][i].rerr # NoErr /\ ~att[p][i].called
    /\ ret[p].err = ErrAllFailed /\ ret[p].attempts = 2

\* The attempts of all requests whose reservation on account a was granted and
\* has not been committed or rolled back yet.
OutstandingOn(a) ==
  {x \in Procs \X (1..MaxProcs) :
     /\ x[2] <= Len(att[x[1]])
     /\ LET t == att[x[1]][x[2]]
        IN t.acct = a /\ t.resv /\ t.commits = 0 /\ t.rollbacks = 0}

RECURSIVE AmountOf(_)
AmountOf(xs) ==
  IF xs = {} THEN 0
  ELSE LET x == CHOOSE y \in xs : TRUE
       IN att[x[1]][x[2]].amount + AmountOf(xs \ {x})

\* C37 as claimed: in every state a row's reserved equals the sum of the amounts
\* of the reservations outstanding on it, also across a lazy daily reset, and so
\* used plus the outstanding reservations never exceeds daily_limit right after a
\* Reserve was granted.
C37_AsClaimed ==
  [](\A a \in DOMAIN accounts : accounts[a].Reserved = AmountOf(OutstandingOn(a)))
  /\ [][\A p \in Procs :
          (rpc[p] = "reserve" /\ rpc'[p] = "call") =>
            LET a == rl[p].cands[rl[p].n].AccountID
            IN a \in DOMAIN accounts =>
                 accounts'[a].Used + AmountOf(OutstandingOn(a))' <=
                   accounts'[a].DailyLimit]_vars

\* The bookkeeping holds as long as no row's reset time has passed.
C37_UntilReset ==
  \A a \in DOMAIN accounts :
    now <= accounts[a].ResetAt /\ accounts[a].ResetAt = nextMidnightUTC(0) =>
      accounts[a].Reserved = AmountOf(OutstandingOn(a))

\* ---------------------------------------------------------------------
\* One ChatCompletionStream call; the stream it returns is read by its caller and
\* closed by the caller and by a second goroutine. RouterStream has no lock: the
\* two Close calls race on s.closed, so each of them is a read of the flag and,
\* later, the write.
\* The stream is in the caller's hands.
StreamOpen(p) ==
  /\ rl[p].kind = "stream" /\ ret[p].state = "ok"
  /\ rpc[p] \in {"streaming", "closeQuota", "closeHealth"}

\* if s.closed { return nil }
Close2Check(p) ==
  /\ co.pc = "idle" /\ StreamOpen(p)
  /\ co' = [co EXCEPT !.pc = IF str[p].closed THEN "returned" ELSE "set",
                      !.sawClosed = str[p].closed]
  /\ UNCHANGED <<storeVars, mu, cpc, cop, nops, held, keyOK, rolled, sel, tri,
                 cfg, health, rpc, rl, att, ret, str, nreq, hcfg, hop, spend>>

\* s.closed = true; err := s.inner.Close(); isSuccess := ...
Close2Set(p, cerr) ==
  /\ co.pc = "set"
  /\ str' = [str EXCEPT ![p].closed = TRUE]
  /\ co' = [co EXCEPT !.pc = "quota", !.closeErr = cerr,
                      !.isSuccess = (str[p].streamErr \in {NoErr, EOF})]
  /\ UNCHANGED <<storeVars, mu, cpc, cop, nops, held, keyOK, rolled, sel, tri,
                 cfg, health, rpc, rl, att, ret, nreq, hcfg, hop, spend>>

\* quotaStore.Commit or quotaStore.Rollback, on the memory store.
Close2Quota(p) ==
  /\ co.pc = "quota"
  /\ LET l == rl[p]
         c == l.cands[l.n]
         a == att[p][l.n]
         actual == ActualTokens(c, str[p].totalUsage)
     IN IF co.isSuccess
        THEN /\ accounts' = StoreCommit(accounts, a.acct, a.amount, actual)
             /\ att' = [att EXCEPT ![p][l.n].commits = @ + 1, ![p][l.n].actual = actual]
        ELSE /\ accounts' = StoreRollback(accounts, a.acct, a.amount)
             /\ att' = [att EXCEPT ![p][l.n].rollbacks = @ + 1]
  /\ co' = [co EXCEPT !.pc = "health"]
  /\ UNCHANGED <<now, seen, mu, cpc, cop, nops, held, keyOK, rolled, sel, tri,
                 cfg, health, rpc, rl, ret, str, nreq, hcfg, hop, spend>>

\* health.RecordSuccess / RecordFailure, the spend (nil tracker: panic on a
\* positive cost), meter.OnResult, return err.
Close2Finish(p) ==
  /\ co.pc = "health"
  /\ LET l == rl[p]
         c == l.cands[l.n]
         ok == co.isSuccess
     IN /\ health' = IF ok THEN RecordSuccess(health, c.AccountID)
                     ELSE RecordFailure(health, c.AccountID, now)
        /\ IF ok /\ calculateSpend(c, str[p].totalUsage) > 0
           THEN /\ co' = [co EXCEPT !.pc = "panicked"]
                /\ UNCHANGED att
           ELSE /\ co' = [co EXCEPT !.pc = "returned"]
                /\ att' = [att EXCEPT ![p][l.n].results = @ + 1,
                                      ![p][l.n].success = ok]
  /\ UNCHANGED <<storeVars, mu, cpc, cop, nops, held, keyOK, rolled, sel, tri,
                 cfg, rpc, rl, ret, str, nreq, hcfg, hop, spend>>

NextClose ==
  \/ \E p \in StreamProcs, lens \in MessageLens : RouterBegin(p, "stream", lens)
  \/ \E p \in StreamProcs : BuildRemaining(p)
  \/ \E p \in StreamProcs : BuildHealth(p)
  \/ \E p \in StreamProcs : RouterReserve(p)
  \/ \E p \in StreamProcs : ProviderReturns(p, NoErr, 0)
  \/ \E p \in StreamProcs, e \in ProviderErrors : ProviderReturns(p, e, 0)
  \/ \E p \in StreamProcs : RouterRollback(p)
  \/ \E p \in StreamProcs : RouterRecordFailure(p)
  \/ \E p \in StreamProcs, t \in StreamChunks : StreamNextUpTo(p, NoErr, t, MaxStreamNext)
  \/ \E p \in StreamProcs, e \in StreamErrors : StreamNextUpTo(p, e, NoUsage, MaxStreamNext)
  \/ \E p \in StreamProcs, e \in CloseErrors : StreamClose(p, e)
  \/ \E p \in StreamProcs : StreamCloseQuota(p)
  \/ \E p \in StreamProcs : StreamCloseFinish(p)
  \/ \E p \in StreamProcs : Close2Check(p)
  \/ \E p \in StreamProcs, e \in CloseErrors : Close2Set(p, e)
  \/ \E p \in StreamProcs : Close2Quota(p)
  \/ \E p \in StreamProcs : Close2Finish(p)

SpecClose == Init /\ [][NextClose]_vars

\* C38 as claimed: with two concurrent Close calls on one RouterStream the
\* reservation is consumed (committed or rolled back) at most once and at most one
\* OnResult event is emitted.
C38_AsClaimed ==
  \A p \in StreamProcs : \A i \in 1..Len(att[p]) :
    /\ att[p][i].commits + att[p][i].rollbacks <= 1
    /\ att[p][i].results <= 1

\* When the second Close reads s.closed after the first one has set it, it
\* returns at once and the reservation is consumed once.
C38_WhenSecondSeesClosed ==
  \A p \in StreamProcs : \A i \in 1..Len(att[p]) :
    co.sawClosed =>
      /\ co.pc = "returned"
      /\ att[p][i].commits + att[p][i].rollbacks <= 1
      /\ att[p][i].results <= 1

\* No row has anything reserved (the state of the rows NewRouter made).
NothingReserved == \A a \in DOMAIN accounts : accounts[a].Reserved = 0

\* C39 as claimed: after a ChatCompletion call whose context was cancelled has
\* returned an error, every row's reserved is back to its value before the call
\* (0 for the first call on a new Router), whichever store is used.
C39_AsClaimed ==
  \A p \in StoreProcs :
    (nreq = 1 /\ rpc[p] = "done" /\ rl[p].ctxDone /\ ret[p].state = "err")
      => NothingReserved

\* What holds: nothing stays reserved between calls over the memory store (and
\* the no-op store), which ignore the context, and over any store after a first
\* call whose context was not cancelled.
C39_NoLeakWithoutContext ==
  \A p \in StoreProcs :
    /\ (StoreKind(cfg) \in {StoreMemory, StoreNoop} /\ rpc[p] \in {"idle", "done"})
         => NothingReserved
    /\ (nreq = 1 /\ rpc[p] = "done" /\ ~rl[p].ctxDone) => NothingReserved

\* ---------------------------------------------------------------------
\* A MemoryQuotaStore, a Redis store and a Postgres store, all new, and one
\* client that makes every call on all three with the same arguments at the same
\* time of day, while time passes.
MaxTriOps == 4
TriAccts == {"a1", "u"}
TriKeys == ClientKeys

Outs(m, r, pg) == [memory |-> m, redis |-> r, postgres |-> pg]

TriOthers ==
  <<accounts, seen, mu, cpc, cop, nops, held, keyOK, rolled, sel, co, cfg, health,
    rpc, rl, att, ret, str, nreq, hcfg, hop, spend>>

\* The call is made before any row's first reset time.
BeforeReset == now < nextMidnightUTC(0)

TriSetQuota(a, limit) ==
  /\ tri.n < MaxTriOps
  /\ tri' = [tri EXCEPT
       !.memory.accounts = StoreSetQuota(@, a, limit, QuotaTokens, now),
       !.redis.accounts = RedisSetQuota(@, a, limit, QuotaTokens, now),
       !.postgres.accounts = PostgresSetQuota(@, a, limit, QuotaTokens, now),
       !.op = "SetQuota", !.out = Outs(NoErr, NoErr, NoErr), !.n = @ + 1,
       !.common = @ /\ BeforeReset /\ a \notin DOMAIN tri.memory.accounts]
  /\ UNCHANGED <<now, TriOthers>>

TriReserve(a, amount, key) ==
  /\ tri.n < MaxTriOps
  /\ LET m == StoreReserve(tri.memory.accounts, tri.memory.seen, a, amount, key, now)
         r == RedisReserve(tri.redis.accounts, tri.redis.seen, a, amount, key, now)
         pg == PostgresReserve(tri.postgres.accounts, tri.postgres.seen, a, amount,
                               key, now)
         all == m.err = NoErr /\ r.err = NoErr /\ pg.err = NoErr
     IN tri' = [tri EXCEPT
          !.memory = [accounts |-> m.accounts, seen |-> m.seen],
          !.redis = [accounts |-> r.accounts, seen |-> r.seen],
          !.postgres = [accounts |-> pg.accounts, seen |-> pg.seen],
          !.op = "Reserve", !.out = Outs(m.err, r.err, pg.err), !.n = @ + 1,
          !.held = IF all THEN @ \cup {[id |-> tri.n, acct |-> a, amount |-> amount]}
                   ELSE @,
          !.common = @ /\ BeforeReset
                       /\ (key = NoKey \/ a \in DOMAIN tri.memory.accounts)]
  /\ UNCHANGED <<now, TriOthers>>

TriCommit(res, actual) ==
  /\ tri.n < MaxTriOps /\ res \in tri.held
  /\ tri' = [tri EXCEPT
       !.memory.accounts = StoreCommit(@, res.acct, res.amount, actual),
       !.redis.accounts = RedisCommit(@, res.acct, res.amount, actual),
       !.postgres.accounts = PostgresCommit(@, res.acct, res.amount, actual),
       !.op = "Commit", !.out = Outs(NoErr, NoErr, NoErr), !.n = @ + 1,
       !.held = @ \ {res}, !.common = @ /\ BeforeReset]
  /\ UNCHANGED <<now, TriOthers>>

TriRollback(res) ==
  /\ tri.n < MaxTriOps /\ res \in tri.held
  /\ tri' = [tri EXCEPT
       !.memory.accounts = StoreRollback(@, res.acct, res.amount),
       !.redis.accounts = RedisRollback(@, res.acct, res.amount),
       !.postgres.accounts = PostgresRollback(@, res.acct, res.amount),
       !.op = "Rollback", !.out = Outs(NoErr, NoErr, NoErr), !.n = @ + 1,
       !.held = @ \ {res}, !.common = @ /\ BeforeReset]
  /\ UNCHANGED <<now, TriOthers>>

TriRemaining(a) ==
  /\ tri.n < MaxTriOps
  /\ tri' = [tri EXCEPT
       !.op = "Remaining",
       !.out = Outs(StoreRemaining(tri.memory.accounts, a),
                    RedisRemaining(tri.redis.accounts, a, now),
                    PostgresRemaining(tri.postgres.accounts, a, now)),
       !.n = @ + 1, !.common = @ /\ BeforeReset]
  /\ UNCHANGED <<now, TriOthers>>

InitContract ==
  /\ now = 0
  /\ seen = {}
  /\ accounts = <<>>
  /\ InitClients
  /\ InitNoRouter

NextContract ==
  \/ \E limit \in 1..MaxLimit : TriSetQuota("a1", limit)
  \/ \E a \in TriAccts, x \in 1..MaxAmt, k \in TriKeys : TriReserve(a, x, k)
  \/ \E res \in tri.held, y \in 0..MaxAmt : TriCommit(res, y)
  \/ \E res \in tri.held : TriRollback(res)
  \/ \E a \in TriAccts : TriRemaining(a)
  \/ Tick

SpecContract == InitContract /\ [][NextContract]_vars

\* The three stores answered the last call alike.
SameOutcome == tri.out.memory = tri.out.redis /\ tri.out.redis = tri.out.postgres

\* C40 as claimed: given the same sequence of calls at the same times, the three
\* stores return the same outcomes and the same Remaining values.
C40_AsClaimed == tri.op # "none" => SameOutcome

\* What holds: the stores agree on every call sequence made before the first
\* reset time that sets each row once and presents idempotency keys only on
\* accounts that have a row.
C40_CommonGround == (tri.op # "none" /\ tri.common) => SameOutcome
====
